---- MODULE Spec2Model ----
(***************************************************************************)
(* The publish pipeline of sequoia: scanning a content directory,         *)
(* classifying every post against the persisted ledger                    *)
(* (.sequoia-state.json) and executing the remote side effects per post.  *)
(*                                                                         *)
(* Text is modelled structurally.  A scalar string is the sequence of its *)
(* "/"-separated segments (so "at://did/coll/rkey" is                      *)
(* <<"at:", "", did, coll, rkey>>), and a file is the sequence of its      *)
(* lines, each line a record saying what the line's text is made of.      *)
(***************************************************************************)
EXTENDS Integers, Sequences, FiniteSets, TLC

(* ---------------------------------------------------------------------- *)
(* Bounds of the model                                                     *)
(* ---------------------------------------------------------------------- *)
\* publish runs examined in a row by Spec
MaxRuns == 2
\* remote calls and file writes that fail during the runs examined by Spec
MaxFaults == 1

(* ---------------------------------------------------------------------- *)
(* Values                                                                  *)
(* ---------------------------------------------------------------------- *)
\* the files of the content directory, in the order glob returns them
GlobOrder == <<"a.md", "b.md">>
Paths == {GlobOrder[i] : i \in 1..Len(GlobOrder)}

Did == "did:plc:me"
DocCollection == "site.standard.document"
FeedCollection == "app.bsky.feed.post"

\* record keys the remote repository hands out, in order
Rkeys == <<"3kaa", "3kab", "3kac", "3kad", "3kae", "3kaf", "3kag", "3kah",
          "3kai", "3kaj", "3kak", "3kal", "3kam", "3kan", "3kao", "3kap">>

MkUri(did, coll, rkey) == <<"at:", "", did, coll, rkey>>

\* JavaScript values held in the raw frontmatter bag
Undef == [t |-> "undef", b |-> FALSE, s |-> <<>>]
Bool(x) == [t |-> "bool", b |-> x, s |-> <<>>]
Str(x) == [t |-> "str", b |-> FALSE, s |-> x]
Truthy(v) == (v.t = "bool" /\ v.b) \/ (v.t = "str" /\ v.s # <<"">>)

NoRef == [uri |-> <<>>, cid |-> ""]
NoBlob == [link |-> ""]

(* ---------------------------------------------------------------------- *)
(* Lines of a post file                                                    *)
(* ---------------------------------------------------------------------- *)
\* a line that is exactly the delimiter d
Delim(d) == [k |-> "delim", key |-> d, sep |-> "", val |-> <<>>]
\* a line `key: val` (sep ":") or `key = val` (sep "=")
Field(key, sep, val) == [k |-> "field", key |-> key, sep |-> sep, val |-> val]
\* a line of prose
Text(t) == [k |-> "text", key |-> t, sep |-> "", val |-> <<>>]
\* a line of prose that ends with the text `atUri<sep> val`
Mention(sep, val) == [k |-> "mention", key |-> "atUri", sep |-> sep, val |-> val]

Separator(d) == IF d = "+++" THEN "=" ELSE ":"

Min(S) == CHOOSE x \in S : \A y \in S : x <= y

(* ---------------------------------------------------------------------- *)
(* parseFrontmatter                                                        *)
(* ---------------------------------------------------------------------- *)
\* /^(---|\+\+\+|\*\*\*)\n([\s\S]*?)\n\1\n([\s\S]*)$/ : the first line is a
\* delimiter and the block ends at the first later line, not the second,
\* that is the same delimiter
ClosingCandidates(content) ==
    {i \in 3..Len(content) : content[i] = content[1]}

FrontmatterMatches(content) ==
    /\ Len(content) >= 3
    /\ content[1].k = "delim"
    /\ ClosingCandidates(content) # {}

ClosingIndex(content) == Min(ClosingCandidates(content))

\* the `true` / `false` coercion of a scalar; every other value stays a string
Coerce(val) ==
    IF val = <<"true">> THEN Bool(TRUE)
    ELSE IF val = <<"false">> THEN Bool(FALSE)
    ELSE Str(val)

\* raw[key] after the loop over the lines of the block: the last line with
\* that key and the dialect's separator wins
RawGet(content, key) ==
    LET sepr == Separator(content[1].key)
        hits == {i \in 2..(ClosingIndex(content) - 1) :
                    /\ content[i].k = "field"
                    /\ content[i].sep = sepr
                    /\ content[i].key = key}
    IN  IF hits = {} THEN Undef
        ELSE Coerce(content[CHOOSE i \in hits : \A j \in hits : j <= i].val)

\* the draft mapping: frontmatter.draft is set only when the field is there
DraftFlag(draftValue) ==
    IF draftValue.t = "undef" THEN FALSE
    ELSE (draftValue = Bool(TRUE)) \/ (draftValue = Str(<<"true">>))

ParseFrontmatter(content) ==
    IF ~FrontmatterMatches(content)
    THEN [ok |-> FALSE, title |-> Undef, publishDate |-> Undef,
          ogImage |-> Undef, draft |-> FALSE, atUri |-> Undef]
    ELSE [ok |-> TRUE,
          title |-> RawGet(content, "title"),
          publishDate |-> RawGet(content, "publishDate"),
          ogImage |-> RawGet(content, "ogImage"),
          draft |-> DraftFlag(RawGet(content, "draft")),
          atUri |-> RawGet(content, "atUri")]

(* ---------------------------------------------------------------------- *)
(* getContentHash, getSlugFromOptions                                      *)
(* ---------------------------------------------------------------------- *)
\* SHA-256 of the text: equal digests exactly for equal texts
GetContentHash(content) == <<"sha256", content>>

\* the relative path without its extension (lower case, no white space)
GetSlugFromOptions(path) ==
    CASE path = "a.md" -> "a"
      [] path = "b.md" -> "b"
      [] OTHER -> "c"

(* ---------------------------------------------------------------------- *)
(* updateFrontmatterWithAtUri                                              *)
(* ---------------------------------------------------------------------- *)
\* rawContent.includes("atUri:") || rawContent.includes("atUri =")
IncludesAtUri(content) ==
    \E i \in 1..Len(content) :
        content[i].key = "atUri" /\ content[i].k \in {"field", "mention"}

\* the lines where /atUri\s*[=:]\s*["']?[^"'\n]+["']?\n?/ matches: `atUri`,
\* a separator and a value of at least one character
AtUriMatches(content) ==
    {i \in 1..Len(content) :
        /\ content[i].key = "atUri"
        /\ content[i].k \in {"field", "mention"}
        /\ content[i].val # <<"">>}

\* rawContent.indexOf(delimiter, 4): the first line after the opening one
\* that holds the delimiter
DelimiterLines(content, d) ==
    {i \in 2..Len(content) : content[i] = Delim(d)}

UpdateFrontmatterWithAtUri(content, atUri) ==
    LET d == IF Len(content) >= 1 /\ content[1].k = "delim"
             THEN content[1].key ELSE "---"
        sepr == Separator(d)
    IN  IF IncludesAtUri(content)
        THEN IF AtUriMatches(content) = {}
             THEN [ok |-> TRUE, content |-> content]
             ELSE LET i == Min(AtUriMatches(content))
                  IN  [ok |-> TRUE,
                       content |-> [content EXCEPT ![i].sep = sepr,
                                                   ![i].val = atUri]]
        ELSE IF DelimiterLines(content, d) = {}
             THEN [ok |-> FALSE, content |-> content]
             ELSE LET e == Min(DelimiterLines(content, d))
                  IN  [ok |-> TRUE,
                       content |-> SubSeq(content, 1, e - 1)
                                   \o <<Field("atUri", sepr, atUri)>>
                                   \o SubSeq(content, e, Len(content))]

(* ---------------------------------------------------------------------- *)
(* updateDocument's reading of the identifier                              *)
(* ---------------------------------------------------------------------- *)
\* /^at:\/\/([^/]+)\/([^/]+)\/(.+)$/ on the segments of the string
AtUriWellFormed(v) ==
    /\ v.t = "str"
    /\ Len(v.s) >= 5
    /\ v.s[1] = "at:" /\ v.s[2] = ""
    /\ v.s[3] # "" /\ v.s[4] # ""
    /\ ~(Len(v.s) = 5 /\ v.s[5] = "")

\* a reading that took the repository for the collection
ParseAtUriShifted(v) ==
    [did |-> v.s[3], collection |-> v.s[3], rkey |-> SubSeq(v.s, 5, Len(v.s))]

ParseAtUri(v) ==
    [did |-> v.s[3], collection |-> v.s[4], rkey |-> SubSeq(v.s, 5, Len(v.s))]

(* ---------------------------------------------------------------------- *)
(* The ledger (.sequoia-state.json)                                        *)
(* ---------------------------------------------------------------------- *)
\* state.posts[path] === undefined
Absent == [present |-> FALSE, contentHash |-> <<>>, atUri |-> Undef,
           lastPublished |-> 0, slug |-> "", bskyPostRef |-> NoRef]

EmptyState == [p \in Paths |-> Absent]

\* { posts: {} } when the file is missing or does not parse
\* `posts` of a ledger that is valid JSON without that member: undefined
NoPosts == <<>>

\* the parsed file as it is, whatever its shape; the empty mapping when the
\* file is missing or is not JSON
LoadState(disk) ==
    IF disk.kind \in {"json", "shapeless"} THEN disk.posts ELSE EmptyState

SaveState(st) == [kind |-> "json", posts |-> st]

(* ---------------------------------------------------------------------- *)
(* scanContentDirectory                                                    *)
(* ---------------------------------------------------------------------- *)
\* new Date(publishDate) as a day number
DayOf(v) ==
    CASE v = Str(<<"2024-06-10">>) -> 10
      [] v = Str(<<"2024-06-09">>) -> 9
      [] v = Str(<<"2024-06-01">>) -> 1
      [] OTHER -> 0

\* new Date(publishDate) is a valid instant, not Invalid Date
DateValid(v) ==
    v \in {Str(<<"2024-06-10">>), Str(<<"2024-06-09">>), Str(<<"2024-06-01">>)}

\* the day the command runs
Today == DayOf(Str(<<"2024-06-10">>)) + 2

RECURSIVE InsertByDate(_, _)
\* posts.sort((a, b) => dateB - dateA), which is stable: post goes after
\* every post that is not older than it; with an Invalid Date the difference
\* is NaN, which sort takes for 0
InsertByDate(sorted, post) ==
    IF sorted = <<>> THEN <<post>>
    ELSE IF \/ ~DateValid(ParseFrontmatter(Head(sorted).rawContent).publishDate)
            \/ ~DateValid(ParseFrontmatter(post.rawContent).publishDate)
            \/ DayOf(ParseFrontmatter(Head(sorted).rawContent).publishDate)
                  >= DayOf(ParseFrontmatter(post.rawContent).publishDate)
         THEN <<Head(sorted)>> \o InsertByDate(Tail(sorted), post)
         ELSE <<post>> \o sorted

RECURSIVE ScanFrom(_, _)
\* the loop over the files glob returns: a file that does not parse is left out
ScanFrom(fs, i) ==
    IF i = 0 THEN <<>>
    ELSE LET path == GlobOrder[i]
             rest == ScanFrom(fs, i - 1)
         IN  IF ParseFrontmatter(fs[path]).ok
             THEN InsertByDate(rest, [path |-> path, rawContent |-> fs[path]])
             ELSE rest

\* a scan that a file without a metadata block aborts
ScanContentDirectoryAborts(fs) ==
    IF \E p \in Paths : ~ParseFrontmatter(fs[p]).ok
    THEN <<>> ELSE ScanFrom(fs, Len(GlobOrder))

ScanContentDirectory(fs) == ScanFrom(fs, Len(GlobOrder))

(* ---------------------------------------------------------------------- *)
(* publish: classification                                                 *)
(* ---------------------------------------------------------------------- *)
\* a loop that looked at --force before the draft flag
ClassifyForceFirst(post, st, forceFlag) ==
    LET fm == ParseFrontmatter(post.rawContent)
        postState == st[post.path]
    IN  IF forceFlag
        THEN (IF Truthy(fm.atUri) THEN "update" ELSE "create")
        ELSE IF fm.draft THEN "skip-draft"
        ELSE IF ~postState.present THEN "create"
        ELSE IF postState.contentHash # GetContentHash(post.rawContent)
             THEN (IF Truthy(fm.atUri) THEN "update" ELSE "create")
        ELSE "none"

\* a loop that took every changed post for an update
ClassifyChangedUpdates(post, st, forceFlag) ==
    LET fm == ParseFrontmatter(post.rawContent)
        postState == st[post.path]
    IN  IF fm.draft THEN "skip-draft"
        ELSE IF forceFlag
             THEN (IF Truthy(fm.atUri) THEN "update" ELSE "create")
        ELSE IF ~postState.present THEN "create"
        ELSE IF postState.contentHash # GetContentHash(post.rawContent)
             THEN "update"
        ELSE "none"

\* the body of the loop over the scanned posts
Classify(post, st, forceFlag) ==
    LET fm == ParseFrontmatter(post.rawContent)
        postState == st[post.path]
    IN  IF fm.draft THEN "skip-draft"
        ELSE IF forceFlag
             THEN (IF Truthy(fm.atUri) THEN "update" ELSE "create")
        ELSE IF ~postState.present THEN "create"
        ELSE IF postState.contentHash # GetContentHash(post.rawContent)
             THEN (IF Truthy(fm.atUri) THEN "update" ELSE "create")
        ELSE "none"

RECURSIVE PostsToPublish(_, _, _)
PostsToPublish(posts, st, forceFlag) ==
    IF posts = <<>> THEN <<>>
    ELSE LET post == Head(posts)
             action == Classify(post, st, forceFlag)
             rest == PostsToPublish(Tail(posts), st, forceFlag)
         IN  IF action \in {"create", "update"}
             THEN <<[path |-> post.path, rawContent |-> post.rawContent,
                     action |-> action]>> \o rest
             ELSE rest

\* state.posts[relativeFilePath] of the first post that is not a draft, when
\* state.posts is undefined: a TypeError nothing catches
ClassificationThrows(posts, st) ==
    /\ st = NoPosts
    /\ \E i \in 1..Len(posts) : ~ParseFrontmatter(posts[i].rawContent).draft

RECURSIVE DraftPosts(_)
DraftPosts(posts) ==
    IF posts = <<>> THEN <<>>
    ELSE IF ParseFrontmatter(Head(posts).rawContent).draft
         THEN <<Head(posts).path>> \o DraftPosts(Tail(posts))
         ELSE DraftPosts(Tail(posts))

(* ---------------------------------------------------------------------- *)
(* State                                                                   *)
(* ---------------------------------------------------------------------- *)
VARIABLES
    files,          \* the content directory: path -> lines of the file
    images,         \* the cover images that exist on disk
    ledgerDisk,     \* .sequoia-state.json
    bluesky,        \* config.bluesky?.enabled
    pc,             \* where the publish handler stands
    force, dryRun,  \* the flags of the run
    state,          \* the handler's `state.posts`
    postsToPublish, \* the handler's list of { post, action }
    draftPosts,     \* the handler's list of drafts
    idx,            \* the post of postsToPublish the loop is at
    cur,            \* coverImage, atUri, contentForHash, bskyPostRef of that post
    cnt,            \* publishedCount, updatedCount, errorCount, bskyPostCount
    exitCode,       \* the process's exit code, once it ended
    calls,          \* the remote calls and local writes of the run, in order
    nextRkey,       \* how many record keys the remote repository handed out
    run,            \* the clock: the number of the run
    edited,         \* history: a post was edited since the last run started
    prev,           \* history: what the run before this one did
    repo,           \* the remote repository: records created per post and collection
    documents,      \* sync: the documents listDocuments returned
    updateFrontmatter, \* sync: the --update-frontmatter flag
    localPosts,     \* sync: the posts the scan returned
    frontmatterUpdates, \* sync: the queue of { filePath, atUri }
    syncCnt,        \* sync: matchedCount, unmatchedCount
    bskyPost,       \* createBlueskyPost: its options and the text it built
    doc,            \* updateFrontmatterWithAtUri: the content in hand
    wrote,          \* updateFrontmatterWithAtUri: the identifier last written
    site,           \* the path options, a post, and the paths computed for it
    backref,        \* addBskyPostRefToDocument: its arguments, its calls
    trunc,          \* truncateToGraphemes: its arguments and its result
    locks,          \* requestLock: the map of locks and the callers
    oauth,          \* the OAuth store file and the operations on it
    tid,            \* generateTid: the clock, lastTimestamp, the identifiers
    runsLeft,       \* the runs still to start
    faultsLeft      \* the failures still to inject; -1 for no limit

vars == <<files, images, ledgerDisk, bluesky, pc, force, dryRun, state,
          postsToPublish, draftPosts, idx, cur, cnt, exitCode, calls,
          nextRkey, run, edited, prev, repo, documents,
          updateFrontmatter,
          localPosts, frontmatterUpdates, syncCnt, bskyPost, doc, wrote,
          site, backref, trunc, locks, oauth, tid,
          runsLeft, faultsLeft>>

env == <<images, bluesky>>
hist == <<edited, prev, repo>>
NoRecords == [p \in Paths |-> [documents |-> 0, posts |-> 0]]
sync == <<documents, updateFrontmatter, localPosts, frontmatterUpdates, syncCnt>>
lib == <<backref, trunc, locks, oauth, tid>>
pure == <<bskyPost, doc, wrote, site, lib>>
handlers == <<files, ledgerDisk, pc, force, dryRun, state, postsToPublish,
              draftPosts, idx, cur, cnt, exitCode, calls, nextRkey, run,
              runsLeft, faultsLeft>>

NoCur == [coverImage |-> NoBlob, atUri |-> Undef, contentForHash |-> <<>>,
          bskyPostRef |-> NoRef]
NoCnt == [published |-> 0, updated |-> 0, errors |-> 0, bsky |-> 0]
NoSyncCnt == [matched |-> 0, unmatched |-> 0]
NoFacet == [byteStart |-> 0, byteEnd |-> 0]
NoBskyPost == [title |-> 0, description |-> 0, canonicalUrl |-> 0,
               bytes |-> 1, built |-> FALSE, text |-> <<>>,
               facet |-> NoFacet]
NoSite == [pathPrefix |-> <<>>, pathTemplate |-> <<>>,
           post |-> [slug |-> "", year |-> "", title |-> ""],
           documentPath |-> <<>>, documentUrl |-> <<>>, syncPath |-> <<>>,
           bskyUrl |-> <<>>]

\* one entry of the log: the handler's step, the operation, the post it is for,
\* whether it succeeded, and the collection and record key it addressed or
\* was answered with
Call(step, op, path, ok, coll, rkey) ==
    [step |-> step, op |-> op, path |-> path, ok |-> ok, coll |-> coll,
     rkey |-> rkey]

Post == postsToPublish[idx]
PostFm == ParseFrontmatter(Post.rawContent)

\* config.bluesky?.maxAgeDays ?? 7
DefaultMaxAgeDays == 7

\* cutoffDate = now - maxAgeDays
CutoffDay == Today - DefaultMaxAgeDays

(* ---------------------------------------------------------------------- *)
(* The user, between runs                                                  *)
(* ---------------------------------------------------------------------- *)
\* the user rewrites the body of a post
EditedContent(content) == [content EXCEPT ![Len(content)] = Text("body v2")]

EditFile(p) ==
    /\ pc \in {"idle", "done"}
    /\ runsLeft > 0
    /\ files[p] # <<>>
    /\ files[p][Len(files[p])] = Text("body v1")
    /\ files' = [files EXCEPT ![p] = EditedContent(files[p])]
    /\ edited' = TRUE
    /\ UNCHANGED <<env, prev, repo, sync, pure, ledgerDisk, pc, force, dryRun, state, postsToPublish,
                   draftPosts, idx, cur, cnt, exitCode, calls, nextRkey, run,
                   runsLeft, faultsLeft>>

\* a call that fails uses up one of the failures left to inject
Outcome(ok) ==
    IF ok \/ faultsLeft < 0 THEN faultsLeft' = faultsLeft
    ELSE faultsLeft > 0 /\ faultsLeft' = faultsLeft - 1

(* ---------------------------------------------------------------------- *)
(* publish: the handler, one action per await                              *)
(* ---------------------------------------------------------------------- *)
\* a handler without the --dry-run return
StartPublishNoDryRun(forceFlag, dryRunFlag) ==
    LET st == LoadState(ledgerDisk)
        posts == ScanContentDirectory(files)
        todo == PostsToPublish(posts, st, forceFlag)
    IN  /\ pc \in {"idle", "done"}
        /\ runsLeft > 0
        /\ runsLeft' = runsLeft - 1
        /\ run' = run + 1
        /\ force' = forceFlag
        /\ dryRun' = dryRunFlag
        /\ state' = st
        /\ postsToPublish' = todo
        /\ draftPosts' = DraftPosts(posts)
        /\ idx' = 1
        /\ cur' = NoCur
        /\ cnt' = NoCnt
        /\ exitCode' = 0
        /\ calls' = <<>>
        /\ pc' = IF todo = <<>> THEN "done" ELSE "login"
        /\ edited' = FALSE
        /\ prev' = prev
        /\ UNCHANGED <<files, env, repo, sync, pure, ledgerDisk, nextRkey,
                       faultsLeft>>

\* loadState, scanContentDirectory, the classification loop and the two
\* early returns (nothing to publish, --dry-run)
StartPublish(forceFlag, dryRunFlag) ==
    LET st == LoadState(ledgerDisk)
        posts == ScanContentDirectory(files)
        throws == ClassificationThrows(posts, st)
        todo == IF throws THEN <<>>
                ELSE PostsToPublish(posts, st, forceFlag)
    IN  /\ pc \in {"idle", "done"}
        /\ runsLeft > 0
        /\ runsLeft' = runsLeft - 1
        /\ run' = run + 1
        /\ force' = forceFlag
        /\ dryRun' = dryRunFlag
        /\ state' = st
        /\ postsToPublish' = todo
        /\ draftPosts' = DraftPosts(posts)
        /\ idx' = 1
        /\ cur' = NoCur
        /\ cnt' = NoCnt
        /\ exitCode' = IF throws THEN 1 ELSE 0
        /\ calls' = <<>>
        /\ pc' = IF throws \/ todo = <<>> \/ dryRunFlag
                 THEN "done" ELSE "login"
        /\ edited' = FALSE
        /\ prev' = [ran |-> run >= 1,
                    clean |-> run >= 1 /\ ~dryRun /\ exitCode = 0
                              /\ cnt.errors = 0,
                    forced |-> force,
                    failed |-> {c.path : c \in
                                  {calls[i] : i \in
                                     {k \in 1..Len(calls) :
                                        calls[k].step = "document"
                                        /\ ~calls[k].ok}}},
                    edited |-> edited]
        /\ UNCHANGED <<files, env, repo, sync, pure, ledgerDisk, nextRkey,
                       faultsLeft>>

\* a handler that went on to the posts after a failed login
LoginFailureIgnored(ok) ==
    /\ pc = "login"
    /\ Outcome(ok)
    /\ calls' = Append(calls, Call("login", "createAgent", "", ok, "", <<>>))
    /\ pc' = "cover"
    /\ exitCode' = IF ok THEN 0 ELSE 1
    /\ UNCHANGED <<files, env, hist, sync, pure, ledgerDisk, force, dryRun, state,
                   postsToPublish, draftPosts, idx, cur, cnt, nextRkey, run,
                   runsLeft>>

\* createAgent; a failure is process.exit(1)
Login(ok) ==
    /\ pc = "login"
    /\ Outcome(ok)
    /\ calls' = Append(calls, Call("login", "createAgent", "", ok, "", <<>>))
    /\ pc' = IF ok THEN "cover" ELSE "done"
    /\ exitCode' = IF ok THEN 0 ELSE 1
    /\ UNCHANGED <<files, env, hist, sync, pure, ledgerDisk, force, dryRun, state,
                   postsToPublish, draftPosts, idx, cur, cnt, nextRkey, run,
                   runsLeft>>

\* a try block that cross-posted before it rewrote the frontmatter
StepAfterCrossPostFirst(step, action) ==
    CASE step = "cover" -> "document"
      [] step = "document" -> "bsky"
      [] step = "bsky" -> (IF action = "create" THEN "rewrite" ELSE "ledger")
      [] OTHER -> "ledger"

\* the order of the statements of the per-post try block: cover image,
\* document record, frontmatter rewrite (create only), cross-post, ledger entry
StepAfter(step, action) ==
    CASE step = "cover" -> "document"
      [] step = "document" -> (IF action = "create" THEN "rewrite" ELSE "bsky")
      [] step = "rewrite" -> "bsky"
      [] OTHER -> "ledger"

\* the loop goes on to the next post, or leaves for saveState
AfterPost == IF idx + 1 > Len(postsToPublish) THEN "save" ELSE "cover"

\* resolveImagePath: the image's path, when a file is there
ResolveImagePath(ogImage) == ogImage.t = "str" /\ ogImage.s \in images

\* no cover image named in the frontmatter, or none found on disk
CoverNone ==
    /\ pc = "cover"
    /\ ~(Truthy(PostFm.ogImage) /\ ResolveImagePath(PostFm.ogImage))
    /\ cur' = NoCur
    /\ pc' = StepAfter("cover", Post.action)
    /\ UNCHANGED <<files, env, hist, sync, pure, ledgerDisk, force, dryRun, state,
                   postsToPublish, draftPosts, idx, cnt, exitCode, calls,
                   nextRkey, run, runsLeft, faultsLeft>>

\* uploadImage: uploadBlob, whose failure is caught there and gives undefined
CoverUpload(ok) ==
    /\ pc = "cover"
    /\ Outcome(ok)
    /\ Truthy(PostFm.ogImage) /\ ResolveImagePath(PostFm.ogImage)
    /\ calls' = Append(calls, Call("cover", "uploadBlob", Post.path, ok, "", <<>>))
    /\ cur' = [NoCur EXCEPT !.coverImage =
                  IF ok THEN [link |-> "blob"] ELSE NoBlob]
    /\ pc' = StepAfter("cover", Post.action)
    /\ UNCHANGED <<files, env, hist, sync, pure, ledgerDisk, force, dryRun, state,
                   postsToPublish, draftPosts, idx, cnt, exitCode, nextRkey,
                   run, runsLeft>>

\* a catch that gave up the rest of the batch
CaughtAborts ==
    /\ cnt' = [cnt EXCEPT !.errors = @ + 1]
    /\ idx' = idx + 1
    /\ pc' = "save"

\* a catch that ended the run on the spot
CaughtEndsRun ==
    /\ cnt' = [cnt EXCEPT !.errors = @ + 1]
    /\ idx' = idx + 1
    /\ pc' = "done"

\* the catch of the per-post try: errorCount++ and on to the next post
Caught ==
    /\ cnt' = [cnt EXCEPT !.errors = @ + 1]
    /\ idx' = idx + 1
    /\ pc' = AfterPost

\* a create that, when it failed, still recorded the post in the ledger
DocumentCreateRecordsFailure(ok) ==
    /\ pc = "document"
    /\ Outcome(ok)
    /\ Post.action = "create"
    /\ DateValid(PostFm.publishDate)
    /\ nextRkey < Len(Rkeys)
    /\ calls' = Append(calls,
                  Call("document", "createRecord", Post.path, ok,
                       DocCollection,
                       IF ok THEN <<Rkeys[nextRkey + 1]>> ELSE <<>>))
    /\ IF ok
       THEN /\ cur' = [cur EXCEPT !.atUri =
                          Str(MkUri(Did, DocCollection, Rkeys[nextRkey + 1]))]
            /\ nextRkey' = nextRkey + 1
            /\ repo' = [repo EXCEPT ![Post.path].documents = @ + 1]
            /\ pc' = StepAfter("document", Post.action)
            /\ UNCHANGED <<cnt, idx, state>>
       ELSE /\ Caught
            /\ state' = [state EXCEPT ![Post.path] =
                            [present |-> TRUE,
                             contentHash |-> GetContentHash(Post.rawContent),
                             atUri |-> Undef,
                             lastPublished |-> run,
                             slug |-> GetSlugFromOptions(Post.path),
                             bskyPostRef |-> NoRef]]
            /\ UNCHANGED <<cur, nextRkey, repo>>
    /\ UNCHANGED <<files, env, edited, prev, sync, pure, ledgerDisk, force, dryRun,
                   postsToPublish, draftPosts, exitCode, run, runsLeft>>

\* createDocument: createRecord in the document collection
DocumentCreate(ok) ==
    /\ pc = "document"
    /\ Outcome(ok)
    /\ Post.action = "create"
    /\ DateValid(PostFm.publishDate)
    /\ nextRkey < Len(Rkeys)
    /\ calls' = Append(calls,
                  Call("document", "createRecord", Post.path, ok,
                       DocCollection,
                       IF ok THEN <<Rkeys[nextRkey + 1]>> ELSE <<>>))
    /\ IF ok
       THEN /\ cur' = [cur EXCEPT !.atUri =
                          Str(MkUri(Did, DocCollection, Rkeys[nextRkey + 1]))]
            /\ nextRkey' = nextRkey + 1
            /\ repo' = [repo EXCEPT ![Post.path].documents = @ + 1]
            /\ pc' = StepAfter("document", Post.action)
            /\ UNCHANGED <<cnt, idx>>
       ELSE /\ Caught
            /\ UNCHANGED <<cur, nextRkey, repo>>
    /\ UNCHANGED <<files, env, edited, prev, sync, pure, ledgerDisk, force, dryRun, state,
                   postsToPublish, draftPosts, exitCode, run, runsLeft>>

\* updateDocument with an identifier the regular expression rejects: it throws
\* before any call
DocumentUpdateInvalid ==
    /\ pc = "document"
    /\ Post.action = "update"
    /\ ~AtUriWellFormed(PostFm.atUri)
    /\ Caught
    /\ UNCHANGED <<files, env, hist, sync, pure, ledgerDisk, force, dryRun, state,
                   postsToPublish, draftPosts, cur, exitCode, calls, nextRkey,
                   run, runsLeft, faultsLeft>>

\* createDocument, updateDocument: publishDate.toISOString() of an Invalid
\* Date throws a RangeError while the record is built, before any call
DocumentDateInvalid ==
    /\ pc = "document"
    /\ Post.action = "update" => AtUriWellFormed(PostFm.atUri)
    /\ ~DateValid(PostFm.publishDate)
    /\ Caught
    /\ UNCHANGED <<files, env, hist, sync, pure, ledgerDisk, force, dryRun,
                   state, postsToPublish, draftPosts, cur, exitCode, calls,
                   nextRkey, run, runsLeft, faultsLeft>>

\* updateDocument: putRecord at the identifier's collection and record key
DocumentUpdate(ok) ==
    /\ pc = "document"
    /\ Outcome(ok)
    /\ Post.action = "update"
    /\ AtUriWellFormed(PostFm.atUri)
    /\ DateValid(PostFm.publishDate)
    /\ calls' = Append(calls,
                  Call("document", "putRecord", Post.path, ok,
                       ParseAtUri(PostFm.atUri).collection,
                       ParseAtUri(PostFm.atUri).rkey))
    /\ IF ok
       THEN /\ cur' = [cur EXCEPT !.atUri = PostFm.atUri,
                                  !.contentForHash = Post.rawContent]
            /\ cnt' = [cnt EXCEPT !.updated = @ + 1]
            /\ pc' = StepAfter("document", Post.action)
            /\ UNCHANGED idx
       ELSE /\ Caught
            /\ UNCHANGED cur
    /\ UNCHANGED <<files, env, hist, sync, pure, ledgerDisk, force, dryRun, state,
                   postsToPublish, draftPosts, exitCode, nextRkey, run,
                   runsLeft>>

\* a handler that counted the post as published before the file was written
RewriteFrontmatterCountsFirst(ok) ==
    LET updated == UpdateFrontmatterWithAtUri(Post.rawContent, cur.atUri.s)
    IN  /\ pc = "rewrite"
        /\ Outcome(ok)
        /\ updated.ok
        /\ calls' = Append(calls, Call("rewrite", "writeFile", Post.path, ok, "", <<>>))
        /\ IF ok
           THEN /\ files' = [files EXCEPT ![Post.path] = updated.content]
                /\ cur' = [cur EXCEPT !.contentForHash = updated.content]
                /\ cnt' = [cnt EXCEPT !.published = @ + 1]
                /\ pc' = StepAfter("rewrite", Post.action)
                /\ UNCHANGED idx
           ELSE /\ cnt' = [cnt EXCEPT !.published = @ + 1, !.errors = @ + 1]
                /\ idx' = idx + 1
                /\ pc' = AfterPost
                /\ UNCHANGED <<files, cur>>
        /\ UNCHANGED <<env, hist, sync, pure, ledgerDisk, force, dryRun, state, postsToPublish,
                       draftPosts, exitCode, nextRkey, run, runsLeft>>

\* create only: updateFrontmatterWithAtUri and fs.writeFile of the post
RewriteFrontmatter(ok) ==
    LET updated == UpdateFrontmatterWithAtUri(Post.rawContent, cur.atUri.s)
    IN  /\ pc = "rewrite"
        /\ Outcome(ok)
        /\ updated.ok
        /\ calls' = Append(calls, Call("rewrite", "writeFile", Post.path, ok, "", <<>>))
        /\ IF ok
           THEN /\ files' = [files EXCEPT ![Post.path] = updated.content]
                /\ cur' = [cur EXCEPT !.contentForHash = updated.content]
                /\ cnt' = [cnt EXCEPT !.published = @ + 1]
                /\ pc' = StepAfter("rewrite", Post.action)
                /\ UNCHANGED idx
           ELSE /\ Caught
                /\ UNCHANGED <<files, cur>>
        /\ UNCHANGED <<env, hist, sync, pure, ledgerDisk, force, dryRun, state, postsToPublish,
                       draftPosts, exitCode, nextRkey, run, runsLeft>>

\* a handler that cross-posted without looking for an earlier cross-post
WillCrossPostAgain ==
    /\ bluesky
    /\ ~(DateValid(PostFm.publishDate) /\ DayOf(PostFm.publishDate) < CutoffDay)

\* whether the handler goes on to createBlueskyPost for the post
WillCrossPost ==
    /\ bluesky
    /\ state[Post.path].bskyPostRef = NoRef
    /\ ~(DateValid(PostFm.publishDate) /\ DayOf(PostFm.publishDate) < CutoffDay)

\* no cross-post: not enabled, one exists already, or the post is too old
BskySkip ==
    /\ pc = "bsky"
    /\ ~WillCrossPost
    /\ cur' = [cur EXCEPT !.bskyPostRef =
                  IF bluesky THEN state[Post.path].bskyPostRef ELSE NoRef]
    /\ pc' = StepAfter("bsky", Post.action)
    /\ UNCHANGED <<files, env, hist, sync, pure, ledgerDisk, force, dryRun, state,
                   postsToPublish, draftPosts, idx, cnt, exitCode, calls,
                   nextRkey, run, runsLeft, faultsLeft>>

\* a cross-post whose failure reached the catch of the post
BskyCreateUncaught(ok) ==
    /\ pc = "bsky"
    /\ Outcome(ok)
    /\ WillCrossPost
    /\ nextRkey < Len(Rkeys)
    /\ calls' = Append(calls,
                  Call("bsky", "createRecord", Post.path, ok,
                       FeedCollection,
                       IF ok THEN <<Rkeys[nextRkey + 1]>> ELSE <<>>))
    /\ IF ok
       THEN /\ cur' = [cur EXCEPT !.bskyPostRef =
                          [uri |-> MkUri(Did, FeedCollection, Rkeys[nextRkey + 1]),
                           cid |-> "cid"]]
            /\ nextRkey' = nextRkey + 1
            /\ repo' = [repo EXCEPT ![Post.path].posts = @ + 1]
            /\ pc' = "backrefGet"
            /\ UNCHANGED <<cnt, idx>>
       ELSE /\ Caught
            /\ UNCHANGED <<cur, nextRkey, repo>>
    /\ UNCHANGED <<files, env, edited, prev, sync, pure, ledgerDisk, force, dryRun, state,
                   postsToPublish, draftPosts, exitCode, run, runsLeft>>

\* createBlueskyPost: createRecord in the feed collection; a failure is
\* caught by the inner try and only warned about
BskyCreate(ok) ==
    /\ pc = "bsky"
    /\ Outcome(ok)
    /\ WillCrossPost
    /\ nextRkey < Len(Rkeys)
    /\ calls' = Append(calls,
                  Call("bsky", "createRecord", Post.path, ok,
                       FeedCollection,
                       IF ok THEN <<Rkeys[nextRkey + 1]>> ELSE <<>>))
    /\ IF ok
       THEN /\ cur' = [cur EXCEPT !.bskyPostRef =
                          [uri |-> MkUri(Did, FeedCollection, Rkeys[nextRkey + 1]),
                           cid |-> "cid"]]
            /\ nextRkey' = nextRkey + 1
            /\ repo' = [repo EXCEPT ![Post.path].posts = @ + 1]
            /\ pc' = "backrefGet"
       ELSE /\ pc' = StepAfter("bsky", Post.action)
            /\ UNCHANGED <<cur, nextRkey, repo>>
    /\ UNCHANGED <<files, env, edited, prev, sync, pure, ledgerDisk, force, dryRun, state,
                   postsToPublish, draftPosts, idx, cnt, exitCode, run,
                   runsLeft>>

\* addBskyPostRefToDocument, first half: getRecord of the document
BackrefGet(ok) ==
    /\ pc = "backrefGet"
    /\ Outcome(ok)
    /\ AtUriWellFormed(cur.atUri)
    /\ calls' = Append(calls,
                  Call("backref", "getRecord", Post.path, ok,
                       ParseAtUri(cur.atUri).collection,
                       ParseAtUri(cur.atUri).rkey))
    /\ pc' = IF ok THEN "backrefPut" ELSE StepAfter("bsky", Post.action)
    /\ UNCHANGED <<files, env, hist, sync, pure, ledgerDisk, force, dryRun, state,
                   postsToPublish, draftPosts, idx, cur, cnt, exitCode,
                   nextRkey, run, runsLeft>>

\* addBskyPostRefToDocument, second half: putRecord of the merged record
BackrefPut(ok) ==
    /\ pc = "backrefPut"
    /\ Outcome(ok)
    /\ calls' = Append(calls,
                  Call("backref", "putRecord", Post.path, ok,
                       ParseAtUri(cur.atUri).collection,
                       ParseAtUri(cur.atUri).rkey))
    /\ cnt' = IF ok THEN [cnt EXCEPT !.bsky = @ + 1] ELSE cnt
    /\ pc' = StepAfter("bsky", Post.action)
    /\ UNCHANGED <<files, env, hist, sync, pure, ledgerDisk, force, dryRun, state,
                   postsToPublish, draftPosts, idx, cur, exitCode, nextRkey,
                   run, runsLeft>>

\* a ledger entry that kept the fingerprint of the file as it was scanned
UpdateLedgerEntryScannedHash ==
    /\ pc = "ledger"
    /\ state' = [state EXCEPT ![Post.path] =
                    [present |-> TRUE,
                     contentHash |-> GetContentHash(Post.rawContent),
                     atUri |-> cur.atUri,
                     lastPublished |-> run,
                     slug |-> GetSlugFromOptions(Post.path),
                     bskyPostRef |-> cur.bskyPostRef]]
    /\ calls' = Append(calls, Call("ledger", "setEntry", Post.path, TRUE, "", <<>>))
    /\ idx' = idx + 1
    /\ pc' = AfterPost
    /\ UNCHANGED <<files, env, hist, sync, pure, ledgerDisk, force, dryRun, postsToPublish,
                   draftPosts, cur, cnt, exitCode, nextRkey, run, runsLeft,
                   faultsLeft>>

\* state.posts[relativeFilePath] = { contentHash, atUri, lastPublished, slug,
\* bskyPostRef }
UpdateLedgerEntry ==
    /\ pc = "ledger"
    /\ state' = [state EXCEPT ![Post.path] =
                    [present |-> TRUE,
                     contentHash |-> GetContentHash(cur.contentForHash),
                     atUri |-> cur.atUri,
                     lastPublished |-> run,
                     slug |-> GetSlugFromOptions(Post.path),
                     bskyPostRef |-> cur.bskyPostRef]]
    /\ calls' = Append(calls, Call("ledger", "setEntry", Post.path, TRUE, "", <<>>))
    /\ idx' = idx + 1
    /\ pc' = AfterPost
    /\ UNCHANGED <<files, env, hist, sync, pure, ledgerDisk, force, dryRun, postsToPublish,
                   draftPosts, cur, cnt, exitCode, nextRkey, run, runsLeft,
                   faultsLeft>>

\* a save that kept only the entries of the files the scan returned
SaveAndSummarisePruned ==
    /\ pc = "save"
    /\ ledgerDisk' = SaveState([p \in Paths |->
                                  IF ParseFrontmatter(files[p]).ok
                                  THEN state[p] ELSE Absent])
    /\ calls' = Append(calls, Call("save", "saveState", "", TRUE, "", <<>>))
    /\ pc' = "done"
    /\ UNCHANGED <<files, env, hist, sync, pure, force, dryRun, state, postsToPublish,
                   draftPosts, idx, cur, cnt, exitCode, nextRkey, run,
                   runsLeft, faultsLeft>>

\* saveState after the loop, then the summary
SaveAndSummarise ==
    /\ pc = "save"
    /\ ledgerDisk' = SaveState(state)
    /\ calls' = Append(calls, Call("save", "saveState", "", TRUE, "", <<>>))
    /\ pc' = "done"
    /\ UNCHANGED <<files, env, hist, sync, pure, force, dryRun, state, postsToPublish,
                   draftPosts, idx, cur, cnt, exitCode, nextRkey, run,
                   runsLeft, faultsLeft>>

\* the lines of the summary after saveState: the two counts, and the
\* cross-post and error counts when they are positive
Summary(c) ==
    {[label |-> "Published", count |-> c.published],
     [label |-> "Updated", count |-> c.updated]}
    \cup (IF c.bsky > 0
          THEN {[label |-> "Bluesky posts", count |-> c.bsky]} ELSE {})
    \cup (IF c.errors > 0
          THEN {[label |-> "Errors", count |-> c.errors]} ELSE {})

\* between two runs the user turns cross-posting on or off in the config
ConfigureBluesky ==
    /\ pc \in {"idle", "done"}
    /\ runsLeft > 0
    /\ bluesky' = ~bluesky
    /\ UNCHANGED <<handlers, images, hist, sync, pure>>

\* the publish command
Publish ==
    \/ \E f \in BOOLEAN, d \in BOOLEAN : StartPublish(f, d)
    \/ \E ok \in BOOLEAN : Login(ok)
    \/ CoverNone
    \/ \E ok \in BOOLEAN : CoverUpload(ok)
    \/ \E ok \in BOOLEAN : DocumentCreate(ok)
    \/ DocumentUpdateInvalid
    \/ DocumentDateInvalid
    \/ \E ok \in BOOLEAN : DocumentUpdate(ok)
    \/ \E ok \in BOOLEAN : RewriteFrontmatter(ok)
    \/ BskySkip
    \/ \E ok \in BOOLEAN : BskyCreate(ok)
    \/ \E ok \in BOOLEAN : BackrefGet(ok)
    \/ \E ok \in BOOLEAN : BackrefPut(ok)
    \/ UpdateLedgerEntry
    \/ SaveAndSummarise

Next ==
    \/ \E p \in Paths : EditFile(p)
    \/ Publish

(* ---------------------------------------------------------------------- *)
(* sync: the handler, one action per await                                 *)
(* ---------------------------------------------------------------------- *)
\* `${pathPrefix}/${post.slug}` with the default prefix /posts
SyncPostPath(path) == <<"", "posts", GetSlugFromOptions(path)>>

\* postsByPath.get(docPath): the last scanned post set under that path
LocalMatches(posts, docPath) ==
    {i \in 1..Len(posts) : SyncPostPath(posts[i].path) = docPath}

Max(S) == CHOOSE x \in S : \A y \in S : y <= x

\* the options, the flags and the credentials
SyncStart(updateFlag, dryRunFlag) ==
    /\ pc \in {"idle", "done"}
    /\ runsLeft > 0
    /\ runsLeft' = runsLeft - 1
    /\ run' = run + 1
    /\ updateFrontmatter' = updateFlag
    /\ dryRun' = dryRunFlag
    /\ documents' = <<>>
    /\ localPosts' = <<>>
    /\ frontmatterUpdates' = <<>>
    /\ syncCnt' = NoSyncCnt
    /\ idx' = 1
    /\ exitCode' = 0
    /\ calls' = <<>>
    /\ pc' = "syncLogin"
    /\ UNCHANGED <<files, env, hist, pure, ledgerDisk, force, state,
                   postsToPublish, draftPosts, cur, cnt, nextRkey, faultsLeft>>

\* createAgent; a failure is process.exit(1)
SyncLogin(ok) ==
    /\ pc = "syncLogin"
    /\ Outcome(ok)
    /\ calls' = Append(calls, Call("login", "createAgent", "", ok, "", <<>>))
    /\ pc' = IF ok THEN "syncList" ELSE "done"
    /\ exitCode' = IF ok THEN 0 ELSE 1
    /\ UNCHANGED <<files, env, hist, sync, pure, ledgerDisk, force, dryRun,
                   state, postsToPublish, draftPosts, idx, cur, cnt, nextRkey,
                   run, runsLeft>>

\* listDocuments (listRecords of the document collection), then, when there
\* are documents, scanContentDirectory and loadState; a failure of the listing
\* is not caught and ends the command
ListDocuments(ok, docs) ==
    /\ pc = "syncList"
    /\ Outcome(ok)
    /\ calls' = Append(calls,
                  Call("list", "listRecords", "", ok, DocCollection, <<>>))
    /\ IF ~ok
       THEN /\ pc' = "done" /\ exitCode' = 1
            /\ UNCHANGED <<documents, localPosts, state>>
       ELSE /\ documents' = docs
            /\ exitCode' = 0
            /\ IF docs = <<>>
               THEN pc' = "done" /\ UNCHANGED <<localPosts, state>>
               ELSE /\ pc' = "syncMatch"
                    /\ localPosts' = ScanContentDirectory(files)
                    /\ state' = LoadState(ledgerDisk)
    /\ UNCHANGED <<files, env, hist, pure, ledgerDisk, force, dryRun,
                   updateFrontmatter, frontmatterUpdates, syncCnt,
                   postsToPublish, draftPosts, idx, cur, cnt, nextRkey, run,
                   runsLeft>>

\* the loop goes on to the next document, or leaves for the summary
AfterDocument == IF idx + 1 > Len(documents) THEN "syncSave" ELSE "syncMatch"

\* a matching that wrote the document back to the repository
MatchDocumentPutsRecord ==
    /\ pc = "syncMatch"
    /\ LocalMatches(localPosts, documents[idx].path) # {}
    /\ LET d == documents[idx]
           localPost == localPosts[Max(LocalMatches(localPosts, d.path))]
       IN  /\ state' = [state EXCEPT ![localPost.path] =
                           [present |-> TRUE,
                            contentHash |-> GetContentHash(localPost.rawContent),
                            atUri |-> Str(d.uri),
                            lastPublished |-> d.publishedAt,
                            slug |-> "",
                            bskyPostRef |-> NoRef]]
           /\ frontmatterUpdates' =
                 IF updateFrontmatter
                    /\ ParseFrontmatter(localPost.rawContent).atUri # Str(d.uri)
                 THEN Append(frontmatterUpdates,
                             [filePath |-> localPost.path, atUri |-> d.uri])
                 ELSE frontmatterUpdates
    /\ calls' = Append(calls,
                  Call("match", "putRecord", "", TRUE, DocCollection, <<>>))
    /\ syncCnt' = [syncCnt EXCEPT !.matched = @ + 1]
    /\ idx' = idx + 1
    /\ pc' = AfterDocument
    /\ UNCHANGED <<files, env, hist, pure, ledgerDisk, force, dryRun,
                   documents, updateFrontmatter, localPosts, postsToPublish,
                   draftPosts, cur, cnt, exitCode, nextRkey, run,
                   runsLeft, faultsLeft>>

\* a matching that queued every matched post under --update-frontmatter
MatchDocumentQueuesAlways ==
    /\ pc = "syncMatch"
    /\ LocalMatches(localPosts, documents[idx].path) # {}
    /\ LET d == documents[idx]
           localPost == localPosts[Max(LocalMatches(localPosts, d.path))]
       IN  /\ state' = [state EXCEPT ![localPost.path] =
                           [present |-> TRUE,
                            contentHash |-> GetContentHash(localPost.rawContent),
                            atUri |-> Str(d.uri),
                            lastPublished |-> d.publishedAt,
                            slug |-> "",
                            bskyPostRef |-> NoRef]]
           /\ frontmatterUpdates' =
                 IF updateFrontmatter
                 THEN Append(frontmatterUpdates,
                             [filePath |-> localPost.path, atUri |-> d.uri])
                 ELSE frontmatterUpdates
    /\ syncCnt' = [syncCnt EXCEPT !.matched = @ + 1]
    /\ idx' = idx + 1
    /\ pc' = AfterDocument
    /\ UNCHANGED <<files, env, hist, pure, ledgerDisk, force, dryRun,
                   documents, updateFrontmatter, localPosts, postsToPublish,
                   draftPosts, cur, cnt, exitCode, calls, nextRkey, run,
                   runsLeft, faultsLeft>>

\* a document with a local post under its path: the ledger entry is set and,
\* with --update-frontmatter, a differing embedded identifier is queued
MatchDocument ==
    /\ pc = "syncMatch"
    /\ LocalMatches(localPosts, documents[idx].path) # {}
    /\ LET d == documents[idx]
           localPost == localPosts[Max(LocalMatches(localPosts, d.path))]
       IN  /\ state' = [state EXCEPT ![localPost.path] =
                           [present |-> TRUE,
                            contentHash |-> GetContentHash(localPost.rawContent),
                            atUri |-> Str(d.uri),
                            lastPublished |-> d.publishedAt,
                            slug |-> "",
                            bskyPostRef |-> NoRef]]
           /\ frontmatterUpdates' =
                 IF updateFrontmatter
                    /\ ParseFrontmatter(localPost.rawContent).atUri # Str(d.uri)
                 THEN Append(frontmatterUpdates,
                             [filePath |-> localPost.path, atUri |-> d.uri])
                 ELSE frontmatterUpdates
    /\ syncCnt' = [syncCnt EXCEPT !.matched = @ + 1]
    /\ idx' = idx + 1
    /\ pc' = AfterDocument
    /\ UNCHANGED <<files, env, hist, pure, ledgerDisk, force, dryRun,
                   documents, updateFrontmatter, localPosts, postsToPublish,
                   draftPosts, cur, cnt, exitCode, calls, nextRkey, run,
                   runsLeft, faultsLeft>>

\* a loop that emptied the ledger on a document it could not match
UnmatchedDocumentPrunes ==
    /\ pc = "syncMatch"
    /\ LocalMatches(localPosts, documents[idx].path) = {}
    /\ syncCnt' = [syncCnt EXCEPT !.unmatched = @ + 1]
    /\ state' = EmptyState
    /\ idx' = idx + 1
    /\ pc' = AfterDocument
    /\ UNCHANGED <<files, env, hist, pure, ledgerDisk, force, dryRun,
                   documents, updateFrontmatter, localPosts,
                   frontmatterUpdates, postsToPublish, draftPosts, cur, cnt,
                   exitCode, calls, nextRkey, run, runsLeft, faultsLeft>>

\* a document with no local post under its path: counted and reported
UnmatchedDocument ==
    /\ pc = "syncMatch"
    /\ LocalMatches(localPosts, documents[idx].path) = {}
    /\ syncCnt' = [syncCnt EXCEPT !.unmatched = @ + 1]
    /\ idx' = idx + 1
    /\ pc' = AfterDocument
    /\ UNCHANGED <<files, env, hist, pure, ledgerDisk, force, dryRun, state,
                   documents, updateFrontmatter, localPosts,
                   frontmatterUpdates, postsToPublish, draftPosts, cur, cnt,
                   exitCode, calls, nextRkey, run, runsLeft, faultsLeft>>

\* a --dry-run that saved the ledger all the same
SyncDryRunReturnSaves ==
    /\ pc = "syncSave"
    /\ dryRun
    /\ ledgerDisk' = SaveState(state)
    /\ pc' = "done"
    /\ UNCHANGED <<files, env, hist, sync, pure, force, dryRun, state,
                   postsToPublish, draftPosts, idx, cur, cnt, exitCode,
                   calls, nextRkey, run, runsLeft, faultsLeft>>

\* --dry-run returns after the summary
SyncDryRunReturn ==
    /\ pc = "syncSave"
    /\ dryRun
    /\ pc' = "done"
    /\ UNCHANGED <<files, env, hist, sync, pure, ledgerDisk, force, dryRun,
                   state, postsToPublish, draftPosts, idx, cur, cnt, exitCode,
                   calls, nextRkey, run, runsLeft, faultsLeft>>

\* saveState, then on to the queued frontmatter updates
SyncSaveState ==
    /\ pc = "syncSave"
    /\ ~dryRun
    /\ ledgerDisk' = SaveState(state)
    /\ calls' = Append(calls, Call("save", "saveState", "", TRUE, "", <<>>))
    /\ idx' = 1
    /\ pc' = IF frontmatterUpdates = <<>> THEN "done" ELSE "syncRewrite"
    /\ UNCHANGED <<files, env, hist, sync, pure, force, dryRun, state,
                   postsToPublish, draftPosts, cur, cnt, exitCode, nextRkey,
                   run, runsLeft, faultsLeft>>

\* one queued update: readFile, updateFrontmatterWithAtUri, writeFile; a
\* failure of the write is not caught and ends the command
SyncRewrite(ok) ==
    LET update == frontmatterUpdates[idx]
        updated == UpdateFrontmatterWithAtUri(files[update.filePath],
                                              update.atUri)
    IN  /\ pc = "syncRewrite"
        /\ Outcome(ok)
        /\ updated.ok
        /\ calls' = Append(calls,
                      Call("rewrite", "writeFile", update.filePath, ok, "",
                           <<>>))
        /\ IF ok
           THEN /\ files' = [files EXCEPT ![update.filePath] = updated.content]
                /\ idx' = idx + 1
                /\ exitCode' = 0
                /\ pc' = IF idx + 1 > Len(frontmatterUpdates)
                         THEN "done" ELSE "syncRewrite"
           ELSE /\ pc' = "done" /\ exitCode' = 1
                /\ UNCHANGED <<files, idx>>
        /\ UNCHANGED <<env, hist, sync, pure, ledgerDisk, force, dryRun, state,
                       postsToPublish, draftPosts, cur, cnt, nextRkey, run,
                       runsLeft>>

(* ---------------------------------------------------------------------- *)
(* The content directories and ledgers a run can find                      *)
(* ---------------------------------------------------------------------- *)
Yaml(extra, body) ==
    <<Delim("---"), Field("title", ":", <<"Hello">>)>> \o extra
        \o <<Delim("---")>> \o body

RecentDate == Field("publishDate", ":", <<"2024-06-10">>)
OldDate == Field("publishDate", ":", <<"2024-06-01">>)
CoverPath == <<"", "images", "cover.png">>
PublishedUri == MkUri(Did, DocCollection, "3jzz")
ForeignUri == <<"https:", "", "example.com", "hello">>

TplPlain == Yaml(<<RecentDate>>, <<Text("body v1")>>)
TplOld == Yaml(<<OldDate>>, <<Text("body v1")>>)
TplCover ==
    Yaml(<<RecentDate, Field("ogImage", ":", CoverPath)>>, <<Text("body v1")>>)
TplDraft ==
    Yaml(<<RecentDate, Field("draft", ":", <<"true">>)>>, <<Text("body v1")>>)
TplMention ==
    Yaml(<<RecentDate>>, <<Mention(":", <<"at:", "", "did", "c", "r">>),
                           Text("body v1")>>)
TplToml ==
    <<Delim("+++"), Field("title", "=", <<"Hello">>),
      Field("publishDate", "=", <<"2024-06-10">>), Delim("+++"),
      Text("body v1")>>
TplPublished ==
    Yaml(<<RecentDate, Field("atUri", ":", PublishedUri)>>, <<Text("body v1")>>)
TplPublishedCover ==
    Yaml(<<RecentDate, Field("ogImage", ":", CoverPath),
           Field("atUri", ":", PublishedUri)>>, <<Text("body v1")>>)
TplForeign ==
    Yaml(<<RecentDate, Field("ogImage", ":", CoverPath),
           Field("atUri", ":", ForeignUri)>>, <<Text("body v1")>>)
TplDraftPublished ==
    Yaml(<<RecentDate, Field("draft", ":", <<"true">>),
           Field("atUri", ":", PublishedUri)>>, <<Text("body v1")>>)
TplNoFrontmatter == <<Text("body v1")>>
\* a block that is opened and never closed
TplUnclosed ==
    <<Delim("---"), Field("title", ":", <<"Hello">>), RecentDate,
      Text("body v1")>>
TplUndated ==
    Yaml(<<Field("ogImage", ":", CoverPath)>>, <<Text("body v1")>>)

\* the directories Spec starts from
FirstTemplates == {TplPublished, TplForeign}
SecondTemplates == {TplPlain, TplUndated}
StartDirs ==
    {fs \in [Paths -> FirstTemplates \cup SecondTemplates] :
        /\ fs[GlobOrder[1]] \in FirstTemplates
        /\ \A i \in 2..Len(GlobOrder) : fs[GlobOrder[i]] \in SecondTemplates}

AllTemplates ==
    {TplPlain, TplOld, TplCover, TplDraft, TplMention, TplToml, TplPublished,
     TplPublishedCover, TplForeign, TplDraftPublished, TplNoFrontmatter,
     TplUndated}

\* the entries an earlier publish or sync can have left for a file: none, one
\* for the file as it is, one for the file as it was before the last edit
EntryFor(content, hashed, ref) ==
    [present |-> TRUE,
     contentHash |-> GetContentHash(hashed),
     atUri |-> IF Truthy(ParseFrontmatter(content).atUri)
               THEN ParseFrontmatter(content).atUri
               ELSE Str(PublishedUri),
     lastPublished |-> 0,
     slug |-> "",
     bskyPostRef |-> ref]

SomeRef == [uri |-> MkUri(Did, FeedCollection, "3jzy"), cid |-> "cid0"]

\* the entries an earlier publish or sync can have left for a post
EntriesFor(content) ==
    IF content \in {TplPlain, TplPublished, TplDraftPublished}
    THEN {Absent,
          EntryFor(content, content, NoRef),
          EntryFor(content, content, SomeRef),
          EntryFor(content, [content EXCEPT ![Len(content)] = Text("body v0")],
                   NoRef)}
    ELSE IF content \in {TplPublishedCover, TplForeign, TplDraft}
    THEN {Absent,
          EntryFor(content, [content EXCEPT ![Len(content)] = Text("body v0")],
                   NoRef)}
    ELSE {Absent}

InitHandlers(fs, disk, crossPost, runs, faults) ==
    /\ files = fs
    /\ ledgerDisk = disk
    /\ images = {CoverPath}
    /\ bluesky \in crossPost
    /\ pc = "idle"
    /\ force = FALSE
    /\ dryRun = FALSE
    /\ state = EmptyState
    /\ postsToPublish = <<>>
    /\ draftPosts = <<>>
    /\ idx = 1
    /\ cur = NoCur
    /\ cnt = NoCnt
    /\ exitCode = 0
    /\ calls = <<>>
    /\ nextRkey = 0
    /\ run = 0
    /\ documents = <<>>
    /\ updateFrontmatter = FALSE
    /\ localPosts = <<>>
    /\ frontmatterUpdates = <<>>
    /\ syncCnt = NoSyncCnt
    /\ edited = FALSE
    /\ repo = NoRecords
    /\ prev = [ran |-> FALSE, clean |-> FALSE, forced |-> FALSE,
               failed |-> {}, edited |-> FALSE]
    /\ runsLeft = runs
    /\ faultsLeft = faults

\* no library function is in use
NoBackref == [pc |-> "idle"]
NoTrunc == [pc |-> "idle"]
NoLocks == [pc |-> "idle"]
NoOAuth == [pc |-> "idle"]
NoTid == [pc |-> "idle"]

InitLib ==
    /\ backref = NoBackref
    /\ trunc = NoTrunc
    /\ locks = NoLocks
    /\ oauth = NoOAuth
    /\ tid = NoTid

\* a command starts with no cross-post text and no content in hand
InitRun(fs, disk, crossPost, runs, faults) ==
    /\ InitHandlers(fs, disk, crossPost, runs, faults)
    /\ bskyPost = NoBskyPost
    /\ doc = <<>>
    /\ wrote = <<>>
    /\ site = NoSite
    /\ InitLib

\* the ledger an earlier publish left: an entry for every post that embeds an
\* identifier
PublishedLedger(fs) ==
    [p \in Paths |->
        IF Truthy(ParseFrontmatter(fs[p]).atUri)
        THEN EntryFor(fs[p], fs[p], NoRef) ELSE Absent]

\* a project with no ledger or with the ledger of its last publish, then
\* MaxRuns runs with the user's edits in between
Init ==
    \E fs \in StartDirs :
        \E disk \in {[kind |-> "missing", posts |-> EmptyState],
                     SaveState(PublishedLedger(fs))} :
            InitRun(fs, disk, {TRUE}, MaxRuns, MaxFaults)

Spec == Init /\ [][Next]_vars

\* one run from every directory and every ledger
InitOnce ==
    \E fs \in [Paths -> AllTemplates] :
        \E disk \in {[kind |-> "missing", posts |-> EmptyState],
                     [kind |-> "corrupt", posts |-> EmptyState]}
                    \cup {[kind |-> "json", posts |-> st] :
                            st \in {e \in [Paths -> UNION {EntriesFor(fs[p]) : p \in Paths}] :
                                       \A p \in Paths : e[p] \in EntriesFor(fs[p])}} :
            InitRun(fs, disk, BOOLEAN, 1, -1)

SpecOnce == InitOnce /\ [][Publish]_vars

\* one run over files an earlier run published: a file can have become a
\* draft or have lost its frontmatter since, and its entry can be stale
KeepTemplates ==
    {TplPlain, TplPublished, TplDraftPublished, TplNoFrontmatter, TplCover,
     TplForeign, TplUndated}
KeptEntries ==
    {Absent, EntryFor(TplPublished, TplPublished, SomeRef),
     EntryFor(TplPublished,
              [TplPublished EXCEPT ![Len(TplPublished)] = Text("body v0")],
              NoRef)}

InitKeep ==
    \E fs \in [Paths -> KeepTemplates] :
        \E st \in [Paths -> KeptEntries] :
            InitRun(fs, SaveState(st), BOOLEAN, 1, -1)

SpecKeep == InitKeep /\ [][Publish]_vars

(* ---------------------------------------------------------------------- *)
(* sync: the remote listings and the projects it can find                  *)
(* ---------------------------------------------------------------------- *)
\* the documents of one listing at most
MaxDocs == 2

\* documents of the publication: one for a.md under the identifier the
\* published templates embed, a second one under the same path, one for b.md
\* and one whose path no local post has
DocA ==
    [uri |-> PublishedUri, path |-> <<"", "posts", "a">>, publishedAt |-> 10]
DocADuplicate ==
    [uri |-> MkUri(Did, DocCollection, "3jzx"), path |-> <<"", "posts", "a">>,
     publishedAt |-> 9]
DocB ==
    [uri |-> MkUri(Did, DocCollection, "3jzw"), path |-> <<"", "posts", "b">>,
     publishedAt |-> 9]
DocOrphan ==
    [uri |-> MkUri(Did, DocCollection, "3jzv"),
     path |-> <<"", "posts", "orphan">>, publishedAt |-> 1]
RemoteDocs == {DocA, DocADuplicate, DocB, DocOrphan}

\* what listDocuments can return: up to MaxDocs different documents
Listings ==
    UNION {{l \in [1..n -> RemoteDocs] :
              \A i, j \in 1..n : l[i] = l[j] => i = j} : n \in 0..MaxDocs}

\* the sync command
Sync ==
    \/ \E u \in BOOLEAN, d \in BOOLEAN : SyncStart(u, d)
    \/ \E ok \in BOOLEAN : SyncLogin(ok)
    \/ \E ok \in BOOLEAN, docs \in Listings : ListDocuments(ok, docs)
    \/ MatchDocument
    \/ UnmatchedDocument
    \/ SyncDryRunReturn
    \/ SyncSaveState
    \/ \E ok \in BOOLEAN : SyncRewrite(ok)

SyncTemplates ==
    {TplPlain, TplPublished, TplToml, TplNoFrontmatter, TplUnclosed}

\* the ledger of a project whose posts were all published and cross-posted
CrossPostedLedger(fs) ==
    [p \in Paths |->
        IF ParseFrontmatter(fs[p]).ok
        THEN EntryFor(fs[p], fs[p], SomeRef) ELSE Absent]

\* one sync from a project that lost its ledger or still has it
InitSync ==
    \E fs \in [Paths -> SyncTemplates] :
        \E disk \in {[kind |-> "missing", posts |-> EmptyState],
                     SaveState(CrossPostedLedger(fs))} :
            InitRun(fs, disk, {TRUE}, 1, -1)

SpecSync == InitSync /\ [][Sync]_vars

(* ---------------------------------------------------------------------- *)
(* createBlueskyPost: the text of the cross-post                           *)
(* ---------------------------------------------------------------------- *)
\* A string is a sequence of pieces, each the graphemes from..to of one of
\* the strings the text is assembled from; an empty string has no piece.
MaxGraphemes == 300

Piece(src, from, to) == [src |-> src, from |-> from, to |-> to]

Whole(src, n) == IF n = 0 THEN <<>> ELSE <<Piece(src, 1, n)>>

NewLines == Whole("newlines", 2)

Ellipsis == Whole("...", 3)

RECURSIVE CountGraphemes(_)
CountGraphemes(str) ==
    IF str = <<>> THEN 0
    ELSE Head(str).to - Head(str).from + 1 + CountGraphemes(Tail(str))

\* the first n graphemes of a string
RECURSIVE FirstGraphemes(_, _)
FirstGraphemes(str, n) ==
    IF n <= 0 \/ str = <<>> THEN <<>>
    ELSE LET h == Head(str)
             len == h.to - h.from + 1
         IN  IF len <= n
             THEN <<h>> \o FirstGraphemes(Tail(str), n - len)
             ELSE <<Piece(h.src, h.from, h.from + n - 1)>>

\* segments.slice(0, end): a negative end counts from the end of the string
SliceGraphemes(str, end) ==
    IF end >= 0 THEN FirstGraphemes(str, end)
    ELSE FirstGraphemes(str, CountGraphemes(str) + end)

TruncateToGraphemes(str, maxGraphemes) ==
    IF CountGraphemes(str) <= maxGraphemes THEN str
    ELSE SliceGraphemes(str, maxGraphemes - 3) \o Ellipsis

UrlPart(canonicalUrl) == NewLines \o Whole("canonicalUrl", canonicalUrl)

\* the text before the final truncation; title, description and canonicalUrl
\* are the lengths of the three strings, an absent or empty description is 0
AssembledText(title, description, canonicalUrl) ==
    LET urlPart == UrlPart(canonicalUrl)
        urlGraphemes == CountGraphemes(urlPart)
        fullText == Whole("title", title) \o NewLines
                    \o Whole("description", description) \o urlPart
        availableForDesc ==
            MaxGraphemes - CountGraphemes(Whole("title", title))
            - CountGraphemes(NewLines) - urlGraphemes
            - CountGraphemes(NewLines)
    IN  IF description > 0
        THEN IF CountGraphemes(fullText) <= MaxGraphemes THEN fullText
             ELSE IF availableForDesc > 10
             THEN Whole("title", title) \o NewLines
                  \o TruncateToGraphemes(Whole("description", description),
                                         availableForDesc)
                  \o urlPart
             ELSE Whole("title", title) \o urlPart
        ELSE Whole("title", title) \o urlPart

PostText(title, description, canonicalUrl) ==
    LET postText == AssembledText(title, description, canonicalUrl)
    IN  IF CountGraphemes(postText) > MaxGraphemes
        THEN TruncateToGraphemes(postText, MaxGraphemes)
        ELSE postText

\* postText.lastIndexOf(canonicalUrl): the piece that is the whole URL, or -1
UrlStartInText(text, canonicalUrl) ==
    LET at == {i \in 1..Len(text) :
                  text[i] = Piece("canonicalUrl", 1, canonicalUrl)}
    IN  IF at = {} THEN -1 ELSE Max(at)

\* encoder.encode(str).length: a grapheme of the title or of the description
\* encodes to `bytes` bytes (1: ASCII, 4: an emoji), one of the URL, of the
\* line breaks and of the ellipsis to one byte
BytesOf(src, bytes) ==
    IF src \in {"title", "description"} THEN bytes ELSE 1

RECURSIVE EncodedLength(_, _)
EncodedLength(str, bytes) ==
    IF str = <<>> THEN 0
    ELSE (Head(str).to - Head(str).from + 1) * BytesOf(Head(str).src, bytes)
         + EncodedLength(Tail(str), bytes)

\* postText.substring(0, end): a negative end is taken as 0
Substring(text, end) ==
    IF end <= 0 THEN <<>> ELSE SubSeq(text, 1, end - 1)

\* the byte indices of the link facet
Facet(text, canonicalUrl, bytes) ==
    LET urlStartInText == UrlStartInText(text, canonicalUrl)
        beforeUrl == Substring(text, urlStartInText)
        byteStart == EncodedLength(beforeUrl, bytes)
    IN  [byteStart |-> byteStart,
         byteEnd |-> byteStart
                     + EncodedLength(Whole("canonicalUrl", canonicalUrl),
                                     bytes)]

\* createBlueskyPost builds the text and the facet from its options
BuildPostText ==
    /\ ~bskyPost.built
    /\ bskyPost.canonicalUrl > 0
    /\ LET postText == PostText(bskyPost.title, bskyPost.description,
                                bskyPost.canonicalUrl)
       IN  bskyPost' = [bskyPost EXCEPT
                           !.built = TRUE,
                           !.text = postText,
                           !.facet = Facet(postText, bskyPost.canonicalUrl,
                                           bskyPost.bytes)]
    /\ UNCHANGED <<handlers, env, hist, sync, doc, wrote, site, lib>>

\* the lengths of the titles, descriptions (0: none) and URLs
TitleLengths == {0, 1, 60, 150, 270, 290, 300, 320}
DescriptionLengths == {0, 1, 11, 140, 300, 301}
UrlLengths == {1, 27, 120, 280, 298, 310}
GraphemeBytes == {1, 4}

InitText ==
    /\ InitHandlers([p \in Paths |-> TplPlain],
                    [kind |-> "missing", posts |-> EmptyState], {TRUE}, 0, 0)
    /\ bskyPost \in [title : TitleLengths, description : DescriptionLengths,
                     canonicalUrl : UrlLengths, bytes : GraphemeBytes,
                     built : {FALSE}, text : {<<>>}, facet : {NoFacet}]
    /\ doc = <<>>
    /\ wrote = <<>>
    /\ site = NoSite
    /\ InitLib

SpecText == InitText /\ [][BuildPostText]_vars

(* ---------------------------------------------------------------------- *)
(* updateFrontmatterWithAtUri followed by parseFrontmatter                 *)
(* ---------------------------------------------------------------------- *)
Dialects == {"---", "+++", "***"}

\* a file with a metadata block in dialect d
Block(d, extra, body) ==
    <<Delim(d), Field("title", Separator(d), <<"Hello">>),
      Field("publishDate", Separator(d), <<"2024-06-10">>)>>
        \o extra \o <<Delim(d)>> \o body

OtherUri == MkUri(Did, DocCollection, "3jzy")

\* the atUri line of the block: none, or one of two identifiers
ExistingAtUri(d) ==
    {<<>>, <<Field("atUri", Separator(d), PublishedUri)>>,
     <<Field("atUri", Separator(d), OtherUri)>>}

\* the body: prose, or prose that quotes an atUri line in either notation
Bodies ==
    {<<Text("body v1")>>,
     <<Text("body v1"), Text("body v2")>>,
     <<Mention(":", <<"at:", "", "did", "c", "r">>), Text("body v1")>>,
     <<Text("body v1"), Mention("=", <<"at:", "", "did", "c", "r">>)>>,
     <<Mention("=", PublishedUri), Mention(":", OtherUri)>>}

RoundTripContents ==
    UNION {{Block(d, extra, body) : extra \in ExistingAtUri(d), body \in Bodies} :
              d \in Dialects}

Identifiers ==
    {PublishedUri, OtherUri, MkUri(Did, DocCollection, "3jzx"),
     MkUri(Did, DocCollection, "3jzw")}

\* the identifier is written into the content in hand; a throw leaves it
Embed(u) ==
    /\ LET r == UpdateFrontmatterWithAtUri(doc, u)
       IN  IF r.ok
           THEN doc' = r.content /\ wrote' = u
           ELSE UNCHANGED <<doc, wrote>>
    /\ UNCHANGED <<handlers, env, hist, sync, bskyPost, site, lib>>

EmbedAny == \E u \in Identifiers : Embed(u)

InitRoundTrip ==
    /\ InitHandlers([p \in Paths |-> TplPlain],
                    [kind |-> "missing", posts |-> EmptyState], {TRUE}, 0, 0)
    /\ bskyPost = NoBskyPost
    /\ doc \in RoundTripContents
    /\ wrote = <<>>
    /\ site = NoSite
    /\ InitLib

SpecRoundTrip == InitRoundTrip /\ [][EmbedAny]_vars

\* one run in which the handler, once started, runs to its end: no await of
\* it waits for ever
InitFair ==
    \E fs \in StartDirs :
        \E disk \in {[kind |-> "missing", posts |-> EmptyState],
                     SaveState(PublishedLedger(fs)),
                     SaveState(CrossPostedLedger(fs))} :
            InitRun(fs, disk, BOOLEAN, 1, -1)

\* the awaits of a handler that was started
PublishSteps ==
    \/ \E ok \in BOOLEAN : Login(ok)
    \/ CoverNone
    \/ \E ok \in BOOLEAN : CoverUpload(ok)
    \/ \E ok \in BOOLEAN : DocumentCreate(ok)
    \/ DocumentUpdateInvalid
    \/ DocumentDateInvalid
    \/ \E ok \in BOOLEAN : DocumentUpdate(ok)
    \/ \E ok \in BOOLEAN : RewriteFrontmatter(ok)
    \/ BskySkip
    \/ \E ok \in BOOLEAN : BskyCreate(ok)
    \/ \E ok \in BOOLEAN : BackrefGet(ok)
    \/ \E ok \in BOOLEAN : BackrefPut(ok)
    \/ UpdateLedgerEntry
    \/ SaveAndSummarise

SpecFair == InitFair /\ [][Publish]_vars /\ WF_vars(PublishSteps)

\* one run from every directory, with no ledger, a ledger that is not JSON,
\* a ledger that is JSON without `posts` (the file `{}`), or the ledger of
\* the last publish
InitLoad ==
    \E fs \in [Paths -> AllTemplates] :
        \E disk \in {[kind |-> "missing", posts |-> EmptyState],
                     [kind |-> "corrupt", posts |-> EmptyState],
                     [kind |-> "shapeless", posts |-> NoPosts],
                     SaveState(PublishedLedger(fs)),
                     SaveState(CrossPostedLedger(fs))} :
            InitRun(fs, disk, BOOLEAN, 1, -1)

SpecLoad == InitLoad /\ [][Publish]_vars

\* a project that is published over and over, with cross-posting turned on
\* and off between the runs and with calls that fail
RunsDirs ==
    {fs \in [Paths -> {TplPlain, TplForeign, TplUndated}] :
        /\ fs[GlobOrder[1]] \in {TplPlain, TplForeign}
        /\ \A i \in 2..Len(GlobOrder) : fs[GlobOrder[i]] \in {TplPlain, TplUndated}}

InitRuns ==
    \E fs \in RunsDirs :
        InitRun(fs, [kind |-> "missing", posts |-> EmptyState], BOOLEAN,
                MaxRuns, MaxFaults)

NextRuns ==
    \/ ConfigureBluesky
    \/ Publish

SpecRuns == InitRuns /\ [][NextRuns]_vars

(* ---------------------------------------------------------------------- *)
(* The path and the canonical URL of a post                                *)
(* ---------------------------------------------------------------------- *)
\* A path is the sequence of its "/"-separated segments; an option that is
\* not set is the empty sequence. A template is a path whose segments can be
\* tokens.
DefaultPathPrefix == <<"", "posts">>

\* one token of a template, replaced
ResolveToken(token, post) ==
    CASE token = "{slug}" -> post.slug
      [] token = "{year}" -> post.year
      [] token = "{title}" -> post.title
      [] OTHER -> token

\* the tokens replaced, and a leading slash when there is none
ResolvePathTemplate(template, post) ==
    LET result == [i \in 1..Len(template) |-> ResolveToken(template[i], post)]
    IN  IF result[1] # "" THEN <<"">> \o result ELSE result

ResolvePostPath(post, pathPrefix, pathTemplate) ==
    IF pathTemplate # <<>> THEN ResolvePathTemplate(pathTemplate, post)
    ELSE (IF pathPrefix # <<>> THEN pathPrefix ELSE DefaultPathPrefix)
         \o <<post.slug>>

\* `${pathPrefix}/${post.slug}` with config.pathPrefix || "/posts"
PrefixedPath(post, pathPrefix) ==
    (IF pathPrefix # <<>> THEN pathPrefix ELSE DefaultPathPrefix)
    \o <<post.slug>>

SiteUrl == <<"https:", "", "example.com">>

\* `${config.siteUrl}${path}` for a path with a leading slash
UrlOf(path) == SiteUrl \o Tail(path)

\* createDocument: the record's path and canonicalUrl
CreateDocumentPath ==
    /\ site.documentPath = <<>>
    /\ site.post.slug # ""
    /\ LET postPath == ResolvePostPath(site.post, site.pathPrefix,
                                       site.pathTemplate)
       IN  site' = [site EXCEPT !.documentPath = postPath,
                                !.documentUrl = UrlOf(postPath)]
    /\ UNCHANGED <<handlers, env, hist, sync, bskyPost, doc, wrote, lib>>

\* sync: the key of the post in postsByPath
SyncPath ==
    /\ site.syncPath = <<>>
    /\ site.post.slug # ""
    /\ site' = [site EXCEPT !.syncPath = PrefixedPath(site.post, site.pathPrefix)]
    /\ UNCHANGED <<handlers, env, hist, sync, bskyPost, doc, wrote, lib>>

\* publish: the canonicalUrl handed to createBlueskyPost
CrossPostUrl ==
    /\ site.bskyUrl = <<>>
    /\ site.post.slug # ""
    /\ site' = [site EXCEPT
                   !.bskyUrl = UrlOf(PrefixedPath(site.post, site.pathPrefix))]
    /\ UNCHANGED <<handlers, env, hist, sync, bskyPost, doc, wrote, lib>>

\* the options and the posts
PathPrefixes == {<<>>, <<"", "posts">>, <<"", "blog">>}
PathTemplates ==
    {<<>>, <<"", "posts", "{slug}">>, <<"", "{year}", "{slug}">>,
     <<"{slug}">>, <<"", "blog", "{title}">>}
SitePosts ==
    [slug : {GetSlugFromOptions(p) : p \in Paths}, year : {"2024", "2023"},
     title : {"hello"}]

InitPaths ==
    /\ InitHandlers([p \in Paths |-> TplPlain],
                    [kind |-> "missing", posts |-> EmptyState], {TRUE}, 0, 0)
    /\ bskyPost = NoBskyPost
    /\ doc = <<>>
    /\ wrote = <<>>
    /\ site \in [pathPrefix : PathPrefixes, pathTemplate : PathTemplates,
                 post : SitePosts, documentPath : {<<>>},
                 documentUrl : {<<>>}, syncPath : {<<>>}, bskyUrl : {<<>>}]
    /\ InitLib

NextPaths ==
    \/ CreateDocumentPath
    \/ SyncPath
    \/ CrossPostUrl

SpecPaths == InitPaths /\ [][NextPaths]_vars

(* ---------------------------------------------------------------------- *)
(* addBskyPostRefToDocument                                                *)
(* ---------------------------------------------------------------------- *)
\* the document records the repository can hold under an identifier; a
\* field the record does not have is Undef, NoBlob or NoRef
DocumentRecords ==
    [title : {Str(<<"Hello">>)},
     description : {Undef, Str(<<"about">>)},
     coverImage : {NoBlob, [link |-> "bafycover"]},
     bskyPostRef : {NoRef, SomeRef}]

BackrefUris == {PublishedUri, OtherUri}

NewRefs ==
    {[uri |-> MkUri(Did, FeedCollection, Rkeys[1]), cid |-> "cid"], SomeRef}

NoPut == [repo |-> "", collection |-> "", rkey |-> <<>>,
          record |-> [title |-> Undef, description |-> Undef,
                      coverImage |-> NoBlob, bskyPostRef |-> NoRef]]

\* { ...existingRecord.data.value, bskyPostRef } with the fields dropped
UpdatedRecordFresh(existingRecord, bskyPostRef) ==
    [title |-> existingRecord.title, description |-> Undef,
     coverImage |-> NoBlob, bskyPostRef |-> bskyPostRef]

\* { ...existingRecord.data.value, bskyPostRef }
UpdatedRecord(existingRecord, bskyPostRef) ==
    [f \in DOMAIN existingRecord |->
        IF f = "bskyPostRef" THEN bskyPostRef ELSE existingRecord[f]]

\* the identifiers of the repository that name the record (did, coll, rkey)
RecordsAt(did, coll, rkey) ==
    {u \in BackrefUris : ParseAtUri(Str(u)) =
                            [did |-> did, collection |-> coll, rkey |-> rkey]}

\* parseAtUri, then getRecord of the document; a null parse and a failed
\* call both throw
AddBskyPostRefGet(ok) ==
    /\ backref.pc = "start"
    /\ IF ~AtUriWellFormed(Str(backref.documentAtUri))
       THEN backref' = [backref EXCEPT !.pc = "threw"]
       ELSE LET parsed == ParseAtUri(Str(backref.documentAtUri))
                at == RecordsAt(parsed.did, parsed.collection, parsed.rkey)
            IN  IF ok /\ at # {}
                THEN backref' =
                        [backref EXCEPT
                            !.pc = "put",
                            !.existingRecord =
                                backref.repository[CHOOSE u \in at : TRUE]]
                ELSE backref' = [backref EXCEPT !.pc = "threw"]
    /\ UNCHANGED <<handlers, env, hist, sync, bskyPost, doc, wrote, site,
                   trunc, locks, oauth, tid>>

\* putRecord of the merged record
AddBskyPostRefPut(ok) ==
    /\ backref.pc = "put"
    /\ LET parsed == ParseAtUri(Str(backref.documentAtUri))
           at == RecordsAt(parsed.did, parsed.collection, parsed.rkey)
           updatedRecord ==
               UpdatedRecord(backref.existingRecord, backref.bskyPostRef)
       IN  IF ok
           THEN backref' =
                   [backref EXCEPT
                       !.pc = "done",
                       !.put = [repo |-> parsed.did,
                                collection |-> parsed.collection,
                                rkey |-> parsed.rkey,
                                record |-> updatedRecord],
                       !.repository =
                           [u \in BackrefUris |->
                               IF u \in at THEN updatedRecord
                               ELSE backref.repository[u]]]
           ELSE backref' = [backref EXCEPT !.pc = "threw"]
    /\ UNCHANGED <<handlers, env, hist, sync, bskyPost, doc, wrote, site,
                   trunc, locks, oauth, tid>>

AddBskyPostRefToDocument ==
    \/ \E ok \in BOOLEAN : AddBskyPostRefGet(ok)
    \/ \E ok \in BOOLEAN : AddBskyPostRefPut(ok)

\* nothing but a library function runs
InitIdle ==
    /\ InitHandlers([p \in Paths |-> TplPlain],
                    [kind |-> "missing", posts |-> EmptyState], {TRUE}, 0, 0)
    /\ bskyPost = NoBskyPost
    /\ doc = <<>>
    /\ wrote = <<>>
    /\ site = NoSite

InitBackref ==
    /\ InitIdle
    /\ backref \in [pc : {"start"},
                    documentAtUri : BackrefUris \cup {ForeignUri},
                    bskyPostRef : NewRefs,
                    repository : [BackrefUris -> DocumentRecords],
                    existingRecord : {NoPut.record},
                    put : {NoPut}]
    /\ trunc = NoTrunc
    /\ locks = NoLocks
    /\ oauth = NoOAuth
    /\ tid = NoTid

SpecBackref == InitBackref /\ [][AddBskyPostRefToDocument]_vars

(* ---------------------------------------------------------------------- *)
(* countGraphemes, truncateToGraphemes on code points                      *)
(* ---------------------------------------------------------------------- *)
\* A string is a sequence of code points. Intl.Segmenter groups them into
\* grapheme clusters: a mark or a joiner extends the cluster before it, a
\* prepended sign joins the code point after it, and a line break stands
\* alone.
MaxCodePoints == 6

CodePoints == {"a", "U+0301", "U+0600", "LF"}

Class(c) ==
    CASE c = "U+0301" -> "extend"
      [] c = "U+0600" -> "prepend"
      [] c = "LF" -> "control"
      [] OTHER -> "base"

\* no cluster boundary between two neighbouring code points
JoinsNext(a, b) ==
    /\ Class(a) # "control"
    /\ Class(b) # "control"
    /\ Class(b) = "extend" \/ Class(a) = "prepend"

\* [...segmenter.segment(str)]: the clusters from code point i on, after the
\* open cluster curr
RECURSIVE SegmentsFrom(_, _, _)
SegmentsFrom(str, i, curr) ==
    LET closed == IF curr = <<>> THEN <<>> ELSE <<curr>>
    IN  IF i > Len(str) THEN closed
        ELSE IF curr # <<>> /\ JoinsNext(str[i - 1], str[i])
        THEN SegmentsFrom(str, i + 1, Append(curr, str[i]))
        ELSE closed \o SegmentsFrom(str, i + 1, <<str[i]>>)

\* the segments of either branch: of the segmenter, or [...str]
Segments(str, segmenter) ==
    IF segmenter THEN SegmentsFrom(str, 1, <<>>)
    ELSE [i \in 1..Len(str) |-> <<str[i]>>]

RECURSIVE Join(_)
Join(segments) ==
    IF segments = <<>> THEN <<>> ELSE Head(segments) \o Join(Tail(segments))

CountGraphemesOf(str, segmenter) == Len(Segments(str, segmenter))

\* a truncation that cut the string by code points whatever the runtime has
TruncateToCodePoints(str, maxGraphemes, segmenter) ==
    IF Len(str) <= maxGraphemes THEN str
    ELSE SubSeq(str, 1, maxGraphemes - 3) \o <<".", ".", ".">>

\* truncateToGraphemes for maxGraphemes >= 3
TruncateToGraphemesOf(str, maxGraphemes, segmenter) ==
    LET segments == Segments(str, segmenter)
    IN  IF Len(segments) <= maxGraphemes THEN str
        ELSE Join(SubSeq(segments, 1, maxGraphemes - 3)) \o <<".", ".", ".">>

Truncate ==
    /\ trunc.pc = "start"
    /\ trunc' = [trunc EXCEPT
                    !.pc = "done",
                    !.result = TruncateToGraphemesOf(trunc.str,
                                                     trunc.maxGraphemes,
                                                     trunc.segmenter)]
    /\ UNCHANGED <<handlers, env, hist, sync, bskyPost, doc, wrote, site,
                   backref, locks, oauth, tid>>

Strings == UNION {[1..n -> CodePoints] : n \in 0..MaxCodePoints}
Budgets == {3, 4}

InitTruncate ==
    /\ InitIdle
    /\ trunc \in [pc : {"start"}, str : Strings, maxGraphemes : Budgets,
                  segmenter : BOOLEAN, result : {<<>>}]
    /\ backref = NoBackref
    /\ locks = NoLocks
    /\ oauth = NoOAuth
    /\ tid = NoTid

SpecTruncate == InitTruncate /\ [][Truncate]_vars

(* ---------------------------------------------------------------------- *)
(* requestLock                                                             *)
(* ---------------------------------------------------------------------- *)
\* The calls of requestLock that are in flight in the process, one per
\* caller. A step is one run of a call between two awaits; the promise a
\* call creates is named after its caller.
Callers == {"c1", "c2", "c3"}
LockKeys == {"k1", "k2"}
NoLock == "none"

\* while (locks.has(key)) await locks.get(key); then locks.set(key, promise)
\* and the call of fn, all before the next await
Acquire(c) ==
    IF locks.map[locks.key[c]] # NoLock
    THEN locks' = [locks EXCEPT
                      !.pc[c] = "waiting",
                      !.awaiting[c] = locks.map[locks.key[c]]]
    ELSE locks' = [locks EXCEPT
                      !.pc[c] = "running",
                      !.awaiting[c] = NoLock,
                      !.map[locks.key[c]] = c]

\* requestLock(key, fn) is called
RequestLock(c) ==
    /\ locks.pc[c] = "idle"
    /\ Acquire(c)
    /\ UNCHANGED <<handlers, env, hist, sync, bskyPost, doc, wrote, site,
                   backref, trunc, oauth, tid>>

\* the awaited lock promise resolved: the while loop tests again
Resume(c) ==
    /\ locks.pc[c] = "waiting"
    /\ locks.awaiting[c] \in locks.resolved
    /\ Acquire(c)
    /\ UNCHANGED <<handlers, env, hist, sync, bskyPost, doc, wrote, site,
                   backref, trunc, oauth, tid>>

\* fn ends: its promise is fulfilled or rejected
FnSettles(c, threw) ==
    /\ locks.pc[c] = "running"
    /\ locks' = [locks EXCEPT !.pc[c] = "settled", !.threw[c] = threw]
    /\ UNCHANGED <<handlers, env, hist, sync, bskyPost, doc, wrote, site,
                   backref, trunc, oauth, tid>>

\* a finally that ran only when fn returned
FinallyOnReturn(c) ==
    /\ locks.pc[c] = "settled"
    /\ IF locks.threw[c]
       THEN locks' = [locks EXCEPT !.pc[c] = "ended"]
       ELSE locks' = [locks EXCEPT
                         !.pc[c] = "ended",
                         !.map[locks.key[c]] = NoLock,
                         !.resolved = @ \cup {c}]
    /\ UNCHANGED <<handlers, env, hist, sync, bskyPost, doc, wrote, site,
                   backref, trunc, oauth, tid>>

\* finally: locks.delete(key); resolve()
Finally(c) ==
    /\ locks.pc[c] = "settled"
    /\ locks' = [locks EXCEPT
                    !.pc[c] = "ended",
                    !.map[locks.key[c]] = NoLock,
                    !.resolved = @ \cup {c}]
    /\ UNCHANGED <<handlers, env, hist, sync, bskyPost, doc, wrote, site,
                   backref, trunc, oauth, tid>>

CallerStep(c) ==
    \/ RequestLock(c)
    \/ Resume(c)
    \/ \E threw \in BOOLEAN : FnSettles(c, threw)
    \/ Finally(c)

NextLock == \E c \in Callers : CallerStep(c)

InitLock ==
    /\ InitIdle
    /\ locks \in [pc : {[c \in Callers |-> "idle"]},
                  key : [Callers -> LockKeys],
                  map : {[k \in LockKeys |-> NoLock]},
                  awaiting : {[c \in Callers |-> NoLock]},
                  threw : {[c \in Callers |-> FALSE]},
                  resolved : {{}}]
    /\ backref = NoBackref
    /\ trunc = NoTrunc
    /\ oauth = NoOAuth
    /\ tid = NoTid

\* the event loop runs every continuation that is ready, and every fn ends
SpecLock ==
    InitLock /\ [][NextLock]_vars /\ \A c \in Callers : WF_vars(CallerStep(c))

(* ---------------------------------------------------------------------- *)
(* The OAuth store (oauth.json)                                            *)
(* ---------------------------------------------------------------------- *)
\* The file holds three maps; an operation is one call of stateStore.set or
\* del, sessionStore.set or del, or setOAuthHandle, and two of them are in
\* flight. A step is the run of an operation between two awaits.
StoreOps == {"o1", "o2"}
StoreKeys == {"x", "y"}
Sections == {"states", "sessions", "handles"}
NoValue == "none"

\* the calls: the map written to, whether the key is set or deleted
StoreCalls ==
    {[section |-> "states", del |-> FALSE], [section |-> "states", del |-> TRUE],
     [section |-> "sessions", del |-> FALSE],
     [section |-> "sessions", del |-> TRUE],
     [section |-> "handles", del |-> FALSE]}

EmptyStore == [s \in Sections |-> [k \in StoreKeys |-> NoValue]]
FullStore == [s \in Sections |-> [k \in StoreKeys |-> "old"]]

\* store.states[key] = state, delete store.states[key], and the like
Mutated(store, call, key) ==
    [store EXCEPT ![call.section][key] = IF call.del THEN NoValue ELSE "new"]

\* loadOAuthStore: the content of the file as it is now
LoadOAuthStore(o) ==
    /\ oauth.pc[o] = "start"
    /\ oauth' = [oauth EXCEPT !.pc[o] = "loaded", !.store[o] = oauth.file]
    /\ UNCHANGED <<handlers, env, hist, sync, bskyPost, doc, wrote, site,
                   backref, trunc, locks, tid>>

\* the change of the loaded store, then saveOAuthStore: the whole store is
\* written over the file
SaveOAuthStore(o) ==
    /\ oauth.pc[o] = "loaded"
    /\ oauth' = [oauth EXCEPT
                    !.pc[o] = "done",
                    !.file = Mutated(oauth.store[o], oauth.call[o],
                                     oauth.key[o])]
    /\ UNCHANGED <<handlers, env, hist, sync, bskyPost, doc, wrote, site,
                   backref, trunc, locks, tid>>

NextOAuth == \E o \in StoreOps : LoadOAuthStore(o) \/ SaveOAuthStore(o)

InitOAuth ==
    /\ InitIdle
    /\ oauth \in [pc : {[o \in StoreOps |-> "start"]},
                  call : [StoreOps -> StoreCalls],
                  key : [StoreOps -> StoreKeys],
                  store : {[o \in StoreOps |-> EmptyStore]},
                  file : {EmptyStore, FullStore}]
    /\ backref = NoBackref
    /\ trunc = NoTrunc
    /\ locks = NoLocks
    /\ tid = NoTid

SpecOAuth == InitOAuth /\ [][NextOAuth]_vars

(* ---------------------------------------------------------------------- *)
(* generateTid, isValidTid                                                 *)
(* ---------------------------------------------------------------------- *)
\* An identifier is a sequence of characters. The clock is Date.now() in
\* milliseconds, counted from a few milliseconds around the epoch so that
\* every value stays far below 2^53.
S32_CHAR ==
    <<"2", "3", "4", "5", "6", "7", "a", "b", "c", "d", "e", "f", "g", "h",
      "i", "j", "k", "l", "m", "n", "o", "p", "q", "r", "s", "t", "u", "v",
      "w", "x", "y", "z">>

TidLength == 13
MaxTids == 3

\* the loop: result = S32_CHAR[value % 32] + result; value = value / 32
RECURSIVE Base32(_, _)
Base32(value, n) ==
    IF n = 0 THEN <<>>
    ELSE Base32(value \div Len(S32_CHAR), n - 1)
         \o <<S32_CHAR[(value % Len(S32_CHAR)) + 1]>>

\* (BigInt(timestamp) << 10n) | BigInt(clockId), in base32-sortable
TidOf(timestamp, clockId) == Base32(timestamp * 1024 + clockId, TidLength)

\* a generator that took the clock as it came
GenerateTidFromClock(now) ==
    /\ Len(tid.issued) < MaxTids
    /\ LET timestamp == now * 1000
       IN  tid' = [tid EXCEPT
                      !.lastTimestamp = timestamp,
                      !.clock = Append(@, now),
                      !.issued = Append(@, TidOf(timestamp, tid.clockId))]
    /\ UNCHANGED <<handlers, env, hist, sync, bskyPost, doc, wrote, site,
                   backref, trunc, locks, oauth>>

\* generateTid when Date.now() returns now
GenerateTid(now) ==
    /\ Len(tid.issued) < MaxTids
    /\ LET timestamp == IF now * 1000 <= tid.lastTimestamp
                        THEN tid.lastTimestamp + 1 ELSE now * 1000
       IN  tid' = [tid EXCEPT
                      !.lastTimestamp = timestamp,
                      !.clock = Append(@, now),
                      !.issued = Append(@, TidOf(timestamp, tid.clockId))]
    /\ UNCHANGED <<handlers, env, hist, sync, bskyPost, doc, wrote, site,
                   backref, trunc, locks, oauth>>

\* what Date.now() can return, and Math.floor(Math.random() * 1024)
ClockValues == {-1, 0, 1, 2}
ClockIds == {0, 1, 1023}

NextTid == \E now \in ClockValues : GenerateTid(now)

IsValidTid(t) ==
    /\ Len(t) = TidLength
    /\ \A i \in 1..Len(t) : \E j \in 1..Len(S32_CHAR) : S32_CHAR[j] = t[i]

\* the code unit of a character, by which strings are compared
CharCode(c) ==
    LET digits == <<"0", "1", "2", "3", "4", "5", "6", "7", "8", "9">>
        letters == <<"a", "b", "c", "d", "e", "f", "g", "h", "i", "j", "k",
                     "l", "m", "n", "o", "p", "q", "r", "s", "t", "u", "v",
                     "w", "x", "y", "z">>
    IN  IF \E i \in 1..Len(digits) : digits[i] = c
        THEN 47 + (CHOOSE i \in 1..Len(digits) : digits[i] = c)
        ELSE 96 + (CHOOSE i \in 1..Len(letters) : letters[i] = c)

\* a < b for strings
StringLess(a, b) ==
    \/ \E i \in 1..Min({Len(a), Len(b)}) :
          /\ \A j \in 1..(i - 1) : a[j] = b[j]
          /\ CharCode(a[i]) < CharCode(b[i])
    \/ Len(a) < Len(b) /\ a = SubSeq(b, 1, Len(a))

InitTid ==
    /\ InitIdle
    /\ tid \in [lastTimestamp : {0}, clockId : ClockIds, clock : {<<>>},
                issued : {<<>>}]
    /\ backref = NoBackref
    /\ trunc = NoTrunc
    /\ locks = NoLocks
    /\ oauth = NoOAuth

SpecTid == InitTid /\ [][NextTid]_vars

(* ---------------------------------------------------------------------- *)
(* Properties                                                              *)
(* ---------------------------------------------------------------------- *)
\* the posts the run classified create or update
Todo == {postsToPublish[i].path : i \in 1..Len(postsToPublish)}

\* where a post stands in the run's list
IndexOf(p) == CHOOSE i \in 1..Len(postsToPublish) : postsToPublish[i].path = p

\* the action the run gave a post
ActionOf(p) == IF p \in Todo THEN postsToPublish[IndexOf(p)].action ELSE "none"

\* the content of a classified post as the run scanned it
ScannedOf(p) == postsToPublish[IndexOf(p)].rawContent

\* the log entries that are for a post
CallsOf(p) == {i \in 1..Len(calls) : calls[i].path = p}

IsPost(p) == ParseFrontmatter(files[p]).ok
IsDraft(p) == IsPost(p) /\ ParseFrontmatter(files[p]).draft
Embeds(content) == Truthy(ParseFrontmatter(content).atUri)
Saved == calls # <<>> /\ calls[Len(calls)].op = "saveState"

\* C1: a publish run without --force that follows a run that was no dry run
\* and ended with no post failing, with no file edited in between, classifies
\* no post create or update and makes no remote call.
C1_SecondRunIdempotent ==
    (prev.clean /\ ~prev.edited /\ ~force)
        => (postsToPublish = <<>> /\ calls = <<>> /\ pc = "done")

\* the second run found nothing to do after a first run that published
C1_Witness ==
    /\ run = 2 /\ pc = "done" /\ ~force /\ ~dryRun
    /\ prev.clean /\ ~prev.edited
    /\ nextRkey >= 1
    /\ \E p \in Paths :
          /\ ledgerDisk.posts[p].present
          /\ ledgerDisk.posts[p].lastPublished = 1
          /\ ledgerDisk.posts[p].contentHash = GetContentHash(files[p])

\* C2: a post whose draft flag is true is never classified create or update,
\* is listed as a draft, has no remote call or write made for it, and keeps
\* its ledger entry, in memory and on disk, whatever the ledger and --force.
C2_DraftSkipped ==
    /\ [](\A p \in Paths :
            (IsDraft(p) /\ run >= 1) =>
                /\ ActionOf(p) = "none"
                /\ \E i \in 1..Len(draftPosts) : draftPosts[i] = p
                /\ CallsOf(p) = {}
                /\ state[p] = LoadState(ledgerDisk)[p])
    /\ [][\A p \in Paths :
            IsDraft(p) =>
                /\ files'[p] = files[p]
                /\ LoadState(ledgerDisk')[p] = LoadState(ledgerDisk)[p]]_vars

\* a forced run that published a post and left a draft with a stale entry
C2_Witness ==
    /\ run = 1 /\ pc = "done" /\ force /\ Saved
    /\ \E p \in Paths :
          /\ IsDraft(p)
          /\ state[p].present
          /\ state[p].contentHash # GetContentHash(files[p])
          /\ Embeds(files[p])

\* the action the table of the classification gives a post
C3Table(content, entry, forced) ==
    LET differs == entry.present /\ entry.contentHash # GetContentHash(content)
    IN  IF forced /\ ~Embeds(content) THEN "create"
        ELSE IF forced /\ Embeds(content) THEN "update"
        ELSE IF ~entry.present THEN "create"
        ELSE IF differs /\ Embeds(content) THEN "update"
        ELSE IF differs /\ ~Embeds(content) THEN "create"
        ELSE "none"

\* C3: the run gives every non-draft post exactly one action, the one of the
\* table: forced and no identifier, create; forced and identifier, update;
\* else no entry, create; changed and identifier, update; changed and no
\* identifier, create; unchanged, none.
C3_ClassificationTable ==
    [][run' = run + 1 =>
        /\ \A p \in Paths :
              (IsPost(p) /\ ~IsDraft(p)) =>
                  ActionOf(p)' = C3Table(files[p], LoadState(ledgerDisk)[p], force')
        /\ \A i, j \in 1..Len(postsToPublish') :
              postsToPublish'[i].path = postsToPublish'[j].path => i = j]_vars

\* an unforced run that classified one changed post update and another create
C3_Witness ==
    /\ run = 1 /\ pc = "login" /\ ~force
    /\ \E p, q \in Paths :
          /\ ActionOf(p) = "update" /\ state[p].present
          /\ ActionOf(q) = "create" /\ state[q].present

\* C4: with the ledger missing or corrupt, createRecord is never called in
\* the document collection for a post whose frontmatter embeds an identifier.
C4_NoCreateForEmbedded ==
    ledgerDisk.kind \in {"missing", "corrupt"} =>
        \A i \in 1..Len(calls) :
            ~(/\ calls[i].op = "createRecord"
              /\ calls[i].coll = DocCollection
              /\ Embeds(ScannedOf(calls[i].path)))

\* the post's document write or its frontmatter rewrite threw, or its
\* document could not be built
Threw(p) ==
    \/ \E i \in CallsOf(p) :
          calls[i].step \in {"document", "rewrite"} /\ ~calls[i].ok
    \/ ActionOf(p) = "update"
       /\ ~AtUriWellFormed(ParseFrontmatter(ScannedOf(p)).atUri)
    \/ ~DateValid(ParseFrontmatter(ScannedOf(p)).publishDate)

\* the post went through to its ledger entry
Completed(p) == \E i \in CallsOf(p) : calls[i].op = "setEntry"

\* C5: when a run has saved the ledger, every classified post either threw
\* or was executed to its ledger entry, whatever happened to the posts before
\* it; the error count is the number of posts that threw; and the saved
\* ledger has an entry of this run for exactly the posts that completed.
C5_PartialFailureIsolated ==
    (pc = "done" /\ Saved) =>
        /\ \A p \in Todo : Completed(p) <=> ~Threw(p)
        /\ cnt.errors = Cardinality({p \in Todo : Threw(p)})
        /\ ledgerDisk.kind = "json"
        /\ \A p \in Paths :
              (ledgerDisk.posts[p].present
               /\ ledgerDisk.posts[p].lastPublished = run)
                  <=> (p \in Todo /\ Completed(p))

\* the first post's record write failed and the second post was published
C5_Witness ==
    /\ pc = "done" /\ Saved /\ Len(postsToPublish) = 2
    /\ \E i \in CallsOf(postsToPublish[1].path) :
          calls[i].step = "document" /\ ~calls[i].ok
    /\ Completed(postsToPublish[2].path)
    /\ cnt.errors = 1
    /\ ledgerDisk.posts[postsToPublish[2].path].lastPublished = run

\* the run's createRecord or putRecord of the post's document failed
DocWriteFailed(p) ==
    \E i \in CallsOf(p) : calls[i].step = "document" /\ ~calls[i].ok

\* the ledger entry of a post whose document write failed is the one the run
\* loaded, in memory and on disk
C6EntryKept ==
    /\ [](\A p \in Paths :
            (DocWriteFailed(p) /\ ~Saved) => state[p] = LoadState(ledgerDisk)[p])
    /\ [][\A p \in Paths :
            DocWriteFailed(p)' =>
                /\ state'[p] = state[p]
                /\ LoadState(ledgerDisk')[p] = LoadState(ledgerDisk)[p]]_vars

C7_DryRunClassifiesOnly ==
    /\ [](dryRun =>
            /\ calls = <<>>
            /\ pc = "done"
            /\ state = LoadState(ledgerDisk))
    /\ [][dryRun' => files' = files /\ ledgerDisk' = ledgerDisk]_vars

\* a dry run that classified two posts and did nothing
C7_Witness ==
    /\ dryRun /\ run = 1 /\ pc = "done"
    /\ Len(postsToPublish) = 2
    /\ calls = <<>>

\* the place of a side effect in the sequence of its post
Rank(c) ==
    CASE c.op = "uploadBlob" -> 1
      [] c.op = "createRecord" /\ c.coll = DocCollection -> 2
      [] c.op = "putRecord" /\ c.step = "document" -> 2
      [] c.op = "writeFile" -> 3
      [] c.op = "createRecord" /\ c.coll = FeedCollection -> 4
      [] c.op = "getRecord" -> 5
      [] c.op = "putRecord" /\ c.step = "backref" -> 5
      [] c.op = "setEntry" -> 6
      [] OTHER -> 0

\* C8: the side effects of a post come in the order cover upload, document
\* write, frontmatter rewrite (create only), cross-post, back-reference,
\* ledger entry, and every side effect of a post comes before every side
\* effect of the posts after it.
C8_FixedOrder ==
    /\ \A i, j \in 1..Len(calls) :
          (i < j /\ calls[i].path # "" /\ calls[j].path # "") =>
              IF calls[i].path = calls[j].path
              THEN \/ Rank(calls[i]) < Rank(calls[j])
                   \/ /\ calls[i].op = "getRecord"
                      /\ calls[j].op = "putRecord"
                      /\ calls[j].step = "backref"
              ELSE IndexOf(calls[i].path) < IndexOf(calls[j].path)
    /\ \A i \in 1..Len(calls) :
          /\ calls[i].path # "" => Rank(calls[i]) > 0
          /\ calls[i].op = "writeFile" => ActionOf(calls[i].path) = "create"

\* a created post went through all seven side effects before the next post
C8_Witness ==
    /\ Saved
    /\ \E p, q \in Todo :
          /\ p # q
          /\ {Rank(calls[i]) : i \in CallsOf(p)} = 1..6
          /\ Cardinality(CallsOf(p)) = 7
          /\ CallsOf(q) # {}

\* what C9 says of a post classified update, with the operations that a
\* malformed identifier must keep from happening
C9For(p, kept) ==
    LET v == ParseFrontmatter(ScannedOf(p)).atUri
    IN  /\ \A i \in CallsOf(p) :
              /\ ~(calls[i].op = "createRecord" /\ calls[i].coll = DocCollection)
              /\ calls[i].step = "document" =>
                    /\ calls[i].op = "putRecord"
                    /\ v.s[1] = "at:" /\ v.s[2] = ""
                    /\ calls[i].coll = v.s[4]
                    /\ calls[i].rkey = SubSeq(v.s, 5, Len(v.s))
        /\ ~AtUriWellFormed(v) =>
              /\ \A i \in CallsOf(p) : calls[i].op \notin kept
              /\ ~Completed(p)
              /\ idx > IndexOf(p) => cnt.errors >= 1

\* C9 as stated: an update is a putRecord at the collection and record key
\* of the embedded identifier, never a createRecord of a document, and a
\* malformed identifier fails the post without any remote write.
C9_Original ==
    \A p \in Todo :
        ActionOf(p) = "update" =>
            C9For(p, {"uploadBlob", "createRecord", "putRecord"})

\* C9, amended: an update is a putRecord at the collection and record key of
\* the embedded identifier, never a createRecord of a document, and a
\* malformed identifier fails the post without any remote record write
\* (createRecord, putRecord); the upload of its cover image may have happened.
C9_UpdateAddressed ==
    \A p \in Todo :
        ActionOf(p) = "update" => C9For(p, {"createRecord", "putRecord"})

\* one update went out as a putRecord, another failed on its identifier
\* after its cover image was uploaded
C9_Witness ==
    /\ Saved
    /\ \E p, q \in Todo :
          /\ ActionOf(p) = "update" /\ ActionOf(q) = "update"
          /\ \E i \in CallsOf(p) :
                calls[i].op = "putRecord" /\ calls[i].step = "document"
                /\ calls[i].ok
          /\ ~AtUriWellFormed(ParseFrontmatter(ScannedOf(q)).atUri)
          /\ \E i \in CallsOf(q) : calls[i].op = "uploadBlob"
          /\ cnt.errors = 1

\* the identifier createRecord answered the post's create with
ReturnedUri(p) ==
    LET i == CHOOSE k \in CallsOf(p) :
                calls[k].step = "document" /\ calls[k].ok
    IN  Str(MkUri(Did, DocCollection, calls[i].rkey[1]))

\* C10: once a create of a post with no ledger entry and no embedded
\* identifier has set its ledger entry, the entry's atUri is the identifier
\* createRecord returned, the file on disk embeds that identifier, and the
\* entry's contentHash is the fingerprint of the file on disk.
C10_CreateRecorded ==
    \A p \in Todo :
        (/\ ~Saved
         /\ ActionOf(p) = "create"
         /\ ~LoadState(ledgerDisk)[p].present
         /\ ~Embeds(ScannedOf(p))
         /\ Completed(p)) =>
            /\ state[p].present
            /\ Truthy(state[p].atUri)
            /\ state[p].atUri = ReturnedUri(p)
            /\ ParseFrontmatter(files[p]).atUri = state[p].atUri
            /\ state[p].contentHash = GetContentHash(files[p])

\* the cross-post of the post, or the writing of its back-reference, failed
CrossPostFailed(p) ==
    \E i \in CallsOf(p) : calls[i].step \in {"bsky", "backref"} /\ ~calls[i].ok

\* the identifier the run published the post under
PublishedAs(p) ==
    IF ActionOf(p) = "create" THEN ReturnedUri(p)
    ELSE ParseFrontmatter(ScannedOf(p)).atUri

\* C11: a post whose cross-post or back-reference failed has not thrown: it
\* went on to its ledger entry, which holds the fingerprint of the file on
\* disk and the identifier it was published under; and when the run has
\* saved, the created and updated counts are the posts that completed and
\* the error count is the posts that threw.
C11_CrossPostFailureTolerated ==
    /\ \A p \in Todo :
          (CrossPostFailed(p) /\ idx > IndexOf(p)) =>
              /\ ~Threw(p)
              /\ Completed(p)
              /\ state[p].present
              /\ state[p].atUri = PublishedAs(p)
              /\ state[p].contentHash = GetContentHash(files[p])
              /\ state[p].lastPublished = run
    /\ (pc = "done" /\ Saved) =>
          /\ cnt.published =
                Cardinality({p \in Todo : ActionOf(p) = "create" /\ Completed(p)})
          /\ cnt.updated =
                Cardinality({p \in Todo : ActionOf(p) = "update" /\ Completed(p)})
          /\ cnt.errors =
                Cardinality({p \in Todo : ~Completed(p)})

\* one post's cross-post failed, another's back-reference failed, and both
\* were counted and recorded
C11_Witness ==
    /\ pc = "done" /\ Saved /\ cnt.errors = 0
    /\ cnt.published + cnt.updated = 2
    /\ \E p, q \in Todo :
          /\ \E i \in CallsOf(p) : calls[i].step = "bsky" /\ ~calls[i].ok
          /\ \E i \in CallsOf(q) : calls[i].step = "backref" /\ ~calls[i].ok
          /\ ledgerDisk.posts[p].lastPublished = run
          /\ ledgerDisk.posts[q].lastPublished = run

\* the run asked for a cross-post of the post
CrossPosted(p) ==
    \E i \in CallsOf(p) :
        calls[i].op = "createRecord" /\ calls[i].coll = FeedCollection

\* C12: a cross-post is asked for only when cross-posting is enabled, the
\* ledger entry the run loaded for the post holds no cross-post reference,
\* and the post's publish date is not earlier than today minus the default
\* seven days.
C12_CrossPostOnlyWhenDue ==
    \A p \in Todo :
        (CrossPosted(p) /\ ~Saved) =>
            /\ bluesky
            /\ LoadState(ledgerDisk)[p].bskyPostRef = NoRef
            /\ DayOf(ParseFrontmatter(ScannedOf(p)).publishDate)
                  >= Today - DefaultMaxAgeDays

\* a run that cross-posted one post and completed another, older or already
\* cross-posted, without
C12_Witness ==
    /\ ~Saved /\ bluesky /\ pc = "save"
    /\ \E p, q \in Todo :
          /\ CrossPosted(p)
          /\ Completed(q) /\ ~CrossPosted(q)
          /\ \/ LoadState(ledgerDisk)[q].bskyPostRef # NoRef
             \/ DayOf(ParseFrontmatter(ScannedOf(q)).publishDate)
                   < Today - DefaultMaxAgeDays

\* the file parses and its publish date is no valid instant
Undated(p) ==
    IsPost(p) /\ ~DateValid(ParseFrontmatter(files[p]).publishDate)

\* C19: a file whose frontmatter gives no publish date that is a valid
\* instant is never classified create or update and never has a remote call
\* or a write made for it.
C19_UndatedExcluded ==
    \A p \in Paths : Undated(p) => (p \notin Todo /\ CallsOf(p) = {})

\* no local post has the document's path
NoLocalPost(d) == \A p \in Paths : IsPost(p) => SyncPostPath(p) # d.path

\* no document of the listing has the post's path
NoDocumentFor(p) ==
    \A i \in 1..Len(documents) : documents[i].path # SyncPostPath(p)

\* C14: sync only counts a document whose path no local post has: the step
\* that handles it adds one to the unmatched count and leaves the ledger, in
\* memory and on disk, the queue and every file as they were; and a post no
\* document matches keeps its file and its persisted ledger entry.
C14_UnmatchedOnlyCounted ==
    /\ [][(pc = "syncMatch" /\ NoLocalPost(documents[idx])) =>
            /\ syncCnt'.unmatched = syncCnt.unmatched + 1
            /\ syncCnt'.matched = syncCnt.matched
            /\ state' = state
            /\ ledgerDisk' = ledgerDisk
            /\ files' = files
            /\ frontmatterUpdates' = frontmatterUpdates]_vars
    /\ [][\A p \in Paths :
            NoDocumentFor(p)' =>
                /\ files'[p] = files[p]
                /\ LoadState(ledgerDisk')[p] = LoadState(ledgerDisk)[p]]_vars

\* a sync that matched one document, left the orphan unmatched, and saved a
\* ledger that still has its entry for the post without a document
C14_Witness ==
    /\ pc = "done" /\ ~dryRun /\ Saved
    /\ syncCnt = [matched |-> 1, unmatched |-> 1]
    /\ \E i \in 1..Len(documents) : documents[i] = DocOrphan
    /\ \E p \in Paths :
          NoDocumentFor(p) /\ ledgerDisk.posts[p].bskyPostRef = SomeRef

\* the operations on the remote repository
RepositoryOps ==
    {"uploadBlob", "createRecord", "putRecord", "getRecord", "listRecords"}

\* C15: the only operation sync makes on the remote repository is the
\* listing of the records of the document collection.
C15_SyncReadsOnly ==
    \A i \in 1..Len(calls) :
        calls[i].op \in RepositoryOps =>
            (calls[i].op = "listRecords" /\ calls[i].coll = DocCollection)

\* a sync that listed, matched, saved and rewrote a file
C15_Witness ==
    /\ pc = "done" /\ exitCode = 0 /\ updateFrontmatter
    /\ syncCnt.matched >= 1
    /\ \E i \in 1..Len(calls) : calls[i].op = "listRecords" /\ calls[i].ok
    /\ \E i \in 1..Len(calls) : calls[i].op = "writeFile" /\ calls[i].ok

\* C16: under --dry-run no step of sync changes the ledger file or a post
\* file; and every write of a post file comes after the ledger was saved.
C16_SyncDryRunAndOrder ==
    /\ [][dryRun' => (files' = files /\ ledgerDisk' = ledgerDisk)]_vars
    /\ [](\A i \in 1..Len(calls) :
            calls[i].op = "writeFile" =>
                \E j \in 1..(i - 1) : calls[j].op = "saveState")

\* a dry run with --update-frontmatter that had an entry to save and a
\* rewrite queued, and ended
C16_Witness ==
    /\ pc = "done" /\ dryRun /\ updateFrontmatter /\ exitCode = 0
    /\ frontmatterUpdates # <<>>
    /\ state # LoadState(ledgerDisk)

\* C17: the step that handles a document with the path of a local post sets
\* the post's ledger entry to the fingerprint of the local content, the
\* document's URI and its publishedAt, counts it matched, and queues a
\* frontmatter rewrite exactly when --update-frontmatter is set and the
\* embedded identifier differs from the URI; after the loop, matched plus
\* unmatched is the number of documents.
C17_MatchRecorded ==
    /\ [][\A p \in Paths :
            (/\ pc = "syncMatch" /\ IsPost(p)
             /\ SyncPostPath(p) = documents[idx].path) =>
                /\ state'[p].present
                /\ state'[p].contentHash = GetContentHash(files[p])
                /\ state'[p].atUri = Str(documents[idx].uri)
                /\ state'[p].lastPublished = documents[idx].publishedAt
                /\ syncCnt'.matched = syncCnt.matched + 1
                /\ frontmatterUpdates' =
                      IF /\ updateFrontmatter
                         /\ ParseFrontmatter(files[p]).atUri
                               # Str(documents[idx].uri)
                      THEN Append(frontmatterUpdates,
                                  [filePath |-> p,
                                   atUri |-> documents[idx].uri])
                      ELSE frontmatterUpdates]_vars
    /\ []((pc \in {"syncSave", "syncRewrite"}
           \/ (pc = "done" /\ documents # <<>>)) =>
              syncCnt.matched + syncCnt.unmatched = Len(documents))

\* a sync with --update-frontmatter that matched two posts and queued one
C17_Witness ==
    /\ pc = "done" /\ ~dryRun /\ updateFrontmatter /\ exitCode = 0
    /\ syncCnt.matched = 2 /\ Len(frontmatterUpdates) = 1
    /\ \E p \in Paths :
          /\ ledgerDisk.posts[p].atUri = Str(PublishedUri)
          /\ ledgerDisk.posts[p].lastPublished = DocA.publishedAt

\* the text ends with the whole canonical URL
EndsWithUrl(b) ==
    /\ b.text # <<>>
    /\ b.text[Len(b.text)] = Piece("canonicalUrl", 1, b.canonicalUrl)

\* C13: the text createBlueskyPost builds is at most 300 graphemes long and
\* ends with the complete canonical URL.
C13_TextFitsAndKeepsUrl ==
    bskyPost.built =>
        /\ CountGraphemes(bskyPost.text) <= MaxGraphemes
        /\ EndsWithUrl(bskyPost)

\* C18: after updateFrontmatterWithAtUri wrote an identifier into a content
\* with a valid metadata block, parseFrontmatter reads that identifier as
\* the embedded one.
C18_RoundTrip ==
    wrote # <<>> =>
        /\ ParseFrontmatter(doc).ok
        /\ ParseFrontmatter(doc).atUri = Str(wrote)

\* C20: the step that loads the ledger and classifies the scanned posts
\* takes the persisted mapping when the file is JSON and the empty mapping
\* when it is missing or is not JSON, and ends without an exception.
C20_LoadStateTotal ==
    [][(pc \in {"idle", "done"} /\ run' = run + 1) =>
          /\ state' = IF ledgerDisk.kind \in {"missing", "corrupt"}
                      THEN EmptyState ELSE ledgerDisk.posts
          /\ exitCode' = 0]_vars

\* C21: the scan returns, each once and with its content, exactly the files
\* that have a metadata block: a file whose block is missing or is not
\* closed is left out and every other file is still returned.
C21_ScanSkipsUnparsed ==
    pc \in {"syncMatch", "syncSave"} =>
        /\ \A p \in Paths :
              FrontmatterMatches(files[p]) <=>
                  \E i \in 1..Len(localPosts) : localPosts[i].path = p
        /\ \A i, j \in 1..Len(localPosts) :
              /\ localPosts[i].rawContent = files[localPosts[i].path]
              /\ (localPosts[i].path = localPosts[j].path => i = j)

\* the first file has a block that is not closed and the scan returned the
\* second
C21_Witness ==
    /\ pc = "syncMatch"
    /\ files[GlobOrder[1]] = TplUnclosed
    /\ Len(localPosts) = 1
    /\ localPosts[1].path = GlobOrder[2]

\* the run's login failed
LoginFailed ==
    \E i \in 1..Len(calls) : calls[i].op = "createAgent" /\ ~calls[i].ok

\* C22: when the login of a publish run fails, the failed login is the only
\* thing the run did: no remote record or blob call, no file write and no
\* ledger write follow, no post is counted, and the process has ended with
\* a non-zero exit code; no file and no ledger file changes.
C22_LoginFailureFatal ==
    /\ [](LoginFailed =>
            /\ Len(calls) = 1
            /\ pc = "done" /\ exitCode # 0
            /\ cnt = NoCnt)
    /\ [][LoginFailed' => (files' = files /\ ledgerDisk' = ledgerDisk)]_vars

\* a run with a post to create whose login failed
C22_Witness ==
    /\ LoginFailed /\ pc = "done" /\ ~dryRun
    /\ \E i \in 1..Len(postsToPublish) : postsToPublish[i].action = "create"

\* the run saved the ledger and printed its summary
Summarised == pc = "done" /\ Saved

SummaryLabels == {l.label : l \in Summary(cnt)}

\* C23 as stated: the summary holds the counts of created, updated, skipped,
\* errored and cross-posted posts.
C23_Original ==
    Summarised =>
        {"Published", "Updated", "Skipped", "Errors", "Bluesky posts"}
            \subseteq SummaryLabels

\* C23: a publish run that logged in goes through every classified post,
\* whether or not posts fail, and ends with the summary; its created, updated
\* and error counts account for every classified post, the error count is
\* shown exactly when a post failed and the cross-post count exactly when a
\* cross-post was made and referenced from its document; it has no count of
\* skipped posts.
C23_SummaryAlways ==
    /\ (pc = "cover") ~> Summarised
    /\ [](Summarised =>
            /\ cnt.published + cnt.updated + cnt.errors = Len(postsToPublish)
            /\ cnt.errors = Cardinality({p \in Todo : Threw(p)})
            /\ ("Errors" \in SummaryLabels <=> \E p \in Todo : Threw(p))
            /\ ("Bluesky posts" \in SummaryLabels <=>
                   \E i \in 1..Len(calls) :
                       calls[i].step = "backref" /\ calls[i].op = "putRecord"
                       /\ calls[i].ok)
            /\ SummaryLabels \subseteq
                  {"Published", "Updated", "Bluesky posts", "Errors"})

\* a summary after a batch of a post that failed and a post that was created
C23_Witness ==
    /\ Summarised
    /\ [label |-> "Errors", count |-> 1] \in Summary(cnt)
    /\ [label |-> "Published", count |-> 1] \in Summary(cnt)
    /\ draftPosts = <<>>

\* the upload of the post's cover image failed
CoverUploadFailed(p) ==
    \E i \in CallsOf(p) : calls[i].op = "uploadBlob" /\ ~calls[i].ok

\* C24: after the upload of a post's cover image failed, nothing more is
\* done for that post: no record is written, no ledger entry is set, and
\* once the post is left it has been counted as an error.
C24_CoverFailureAborts ==
    \A p \in Todo :
        CoverUploadFailed(p) =>
            /\ \A i \in CallsOf(p) :
                  calls[i].op \notin {"createRecord", "putRecord", "writeFile",
                                      "setEntry"}
            /\ (pc = "done" => cnt.errors >= 1)

\* C25: over all the runs, createRecord in the document collection succeeds
\* at most once for a post.
C25_CreateOnce == \A p \in Paths : repo[p].documents <= 1

\* C26: once the ledger file holds a cross-post reference for a post, no step
\* of a later run takes it out of the file, changes it, or creates another
\* cross-post for that post.
C26_CrossPostOnce ==
    [][\A p \in Paths :
          (ledgerDisk.kind = "json" /\ ledgerDisk.posts[p].bskyPostRef # NoRef)
              => /\ ledgerDisk'.posts[p].bskyPostRef
                       = ledgerDisk.posts[p].bskyPostRef
                 /\ repo'[p].posts = repo[p].posts]_vars

\* C27: the step of sync that handles a document leaves the slug and the
\* cross-post reference of every ledger entry there is as they were.
C27_SyncKeepsSlugAndRef ==
    [][\A p \in Paths :
          (pc = "syncMatch" /\ state[p].present) =>
              /\ state'[p].slug = state[p].slug
              /\ state'[p].bskyPostRef = state[p].bskyPostRef]_vars

\* sync ran to its end and saved the ledger
SyncCompleted ==
    /\ pc = "done" /\ exitCode = 0 /\ ~dryRun
    /\ \E i \in 1..Len(calls) : calls[i].op = "saveState"

\* C28: when sync --update-frontmatter has completed, the fingerprint in the
\* ledger entry of every matched post is the fingerprint of the post's file
\* as it is on disk.
C28_SyncLeavesMatchingHashes ==
    (SyncCompleted /\ updateFrontmatter) =>
        \A p \in Paths :
            (IsPost(p) /\ ~NoDocumentFor(p)) =>
                ledgerDisk.posts[p].contentHash = GetContentHash(files[p])

\* C29: the path sync computes for a post is the path createDocument wrote
\* into the post's document record.
C29_SyncPathIsDocumentPath ==
    (site.documentPath # <<>> /\ site.syncPath # <<>>) =>
        site.syncPath = site.documentPath

\* C30: the canonical URL handed to createBlueskyPost for a post is the
\* canonicalUrl createDocument wrote into the post's document record.
C30_CrossPostUrlIsDocumentUrl ==
    (site.documentUrl # <<>> /\ site.bskyUrl # <<>>) =>
        site.bskyUrl = site.documentUrl

\* the bytes a piece of the text occupies in the encoded text
ByteSpan(b, i) ==
    [byteStart |-> EncodedLength(SubSeq(b.text, 1, i - 1), b.bytes),
     byteEnd |-> EncodedLength(SubSeq(b.text, 1, i), b.bytes)]

\* C31: the link facet of the cross-post lies inside the encoded text, is not
\* empty, and covers exactly the bytes of the last occurrence of the
\* canonical URL in the text.
C31_FacetCoversUrl ==
    bskyPost.built =>
        /\ 0 <= bskyPost.facet.byteStart
        /\ bskyPost.facet.byteStart < bskyPost.facet.byteEnd
        /\ bskyPost.facet.byteEnd
              <= EncodedLength(bskyPost.text, bskyPost.bytes)
        /\ UrlStartInText(bskyPost.text, bskyPost.canonicalUrl) # -1
        /\ bskyPost.facet
              = ByteSpan(bskyPost,
                         UrlStartInText(bskyPost.text, bskyPost.canonicalUrl))

\* the record the repository held under the document's identifier when the
\* function was called
RecordRead ==
    [f \in {"title", "description", "coverImage"} |->
        backref.repository[backref.documentAtUri][f]]

\* C32: the record addBskyPostRefToDocument puts has every field of the
\* record it read but bskyPostRef with the value read, bskyPostRef is the new
\* reference, and the write names the collection and the record key of the
\* document's identifier.
C32_BackrefMerges ==
    (backref.pc = "done") =>
        /\ DOMAIN backref.put.record = DOMAIN backref.existingRecord
        /\ \A f \in DOMAIN backref.existingRecord \ {"bskyPostRef"} :
              /\ backref.put.record[f] = backref.existingRecord[f]
              /\ backref.put.record[f] = RecordRead[f]
        /\ backref.put.record.bskyPostRef = backref.bskyPostRef
        /\ MkUri(backref.put.repo, backref.put.collection,
                 backref.put.rkey[1]) = backref.documentAtUri
        /\ Len(backref.put.rkey) = 1

C32_Witness ==
    /\ backref.pc = "done"
    /\ backref.existingRecord.description # Undef
    /\ backref.existingRecord.coverImage # NoBlob
    /\ backref.existingRecord.bskyPostRef = SomeRef
    /\ backref.bskyPostRef # SomeRef
    /\ backref.put.record.bskyPostRef = backref.bskyPostRef

\* the posts the run counted as created, and as updated
CountedCreated ==
    {p \in Todo : \E i \in CallsOf(p) : calls[i].step = "rewrite" /\ calls[i].ok}
CountedUpdated ==
    {p \in Todo : \E i \in CallsOf(p) :
        calls[i].step = "document" /\ calls[i].op = "putRecord" /\ calls[i].ok}

\* C33: when a publish run that was no dry run has gone through its posts
\* and saved the ledger, the created, updated and error counts add up to the
\* number of classified posts, the posts whose ledger entry the run set are
\* exactly the posts it counted as created or updated, and the cross-post
\* count is at most the created and updated counts together.
C33_CountersAccount ==
    Summarised =>
        /\ cnt.published + cnt.updated + cnt.errors = Len(postsToPublish)
        /\ cnt.published = Cardinality(CountedCreated)
        /\ cnt.updated = Cardinality(CountedUpdated)
        /\ {p \in Paths : Completed(p)} = CountedCreated \cup CountedUpdated
        /\ \A p \in Paths :
              (ledgerDisk.posts[p].present
               /\ ledgerDisk.posts[p].lastPublished = run)
                  <=> p \in CountedCreated \cup CountedUpdated
        /\ cnt.bsky <= cnt.published + cnt.updated

\* a run with one post created and cross-posted and one post failed
C33_Witness ==
    /\ Summarised
    /\ cnt.published = 1 /\ cnt.errors = 1 /\ cnt.bsky = 1
    /\ Len(postsToPublish) = 2
    /\ \E p \in Todo : Completed(p) /\ ActionOf(p) = "create"

\* C34: no step of a publish run removes an entry of the ledger as it was
\* loaded, and a step changes the entry of a post, in the handler's mapping
\* or in the ledger file, only when the run executed that post to the end
\* without an error.
C34_LedgerKept ==
    [][\A p \in Paths :
          /\ LoadState(ledgerDisk)[p].present
                => LoadState(ledgerDisk')[p].present
          /\ LoadState(ledgerDisk')[p] # LoadState(ledgerDisk)[p]
                => (p \in Todo /\ Completed(p) /\ ~Threw(p))
          /\ (pc \notin {"idle", "done"} /\ state'[p] # state[p])
                => (pc = "ledger" /\ Post.path = p /\ ~Threw(p))]_vars

\* the run saved the ledger with the entry of a file the scan no longer
\* returns and the entry of a draft as they were, and published another post
C34_Witness ==
    /\ Summarised
    /\ \E p \in Paths :
          /\ ~IsPost(p) \/ IsDraft(p)
          /\ ledgerDisk.posts[p] = EntryFor(TplPublished, TplPublished, SomeRef)
    /\ \E q \in Paths : Completed(q)

\* the truncation ran where Intl.Segmenter exists and had to cut
Truncated ==
    /\ trunc.pc = "done"
    /\ trunc.segmenter
    /\ CountGraphemesOf(trunc.str, TRUE) > trunc.maxGraphemes

\* the code points of the result before the ellipsis
Kept == SubSeq(trunc.result, 1, Len(trunc.result) - 3)

\* the result is the first N-3 whole clusters of the input and the ellipsis
KeepsWholeGraphemes ==
    /\ Len(trunc.result) >= 3
    /\ SubSeq(trunc.result, Len(trunc.result) - 2, Len(trunc.result))
          = <<".", ".", ".">>
    /\ Kept = SubSeq(trunc.str, 1, Len(Kept))
    /\ Segments(Kept, TRUE)
          = SubSeq(Segments(trunc.str, TRUE), 1, trunc.maxGraphemes - 3)

\* C35 as stated: the truncated string has exactly N graphemes.
C35_Original ==
    /\ (trunc.pc = "done" /\ trunc.segmenter /\ ~Truncated)
          => trunc.result = trunc.str
    /\ Truncated =>
          /\ KeepsWholeGraphemes
          /\ CountGraphemesOf(trunc.result, TRUE) = trunc.maxGraphemes

\* C35: with Intl.Segmenter, truncateToGraphemes(str, N) for N >= 3 returns
\* str when it has at most N graphemes, and otherwise the first N-3 whole
\* graphemes of str followed by the three dots, no cluster of str being
\* split; that string has at most N graphemes, and exactly N unless the last
\* grapheme kept is a prepended sign, which joins the first dot.
C35_TruncatesOnClusters ==
    /\ (trunc.pc = "done" /\ trunc.segmenter /\ ~Truncated)
          => trunc.result = trunc.str
    /\ Truncated =>
          /\ KeepsWholeGraphemes
          /\ CountGraphemesOf(trunc.result, TRUE) <= trunc.maxGraphemes
          /\ (Kept = <<>> \/ Class(Kept[Len(Kept)]) # "prepend")
                => CountGraphemesOf(trunc.result, TRUE) = trunc.maxGraphemes

\* a string of two-code-point clusters was cut after its first cluster
C35_Witness ==
    /\ Truncated
    /\ trunc.maxGraphemes = 4
    /\ Kept = <<"a", "U+0301">>
    /\ trunc.str[3] = "a"

\* the callers whose fn is executing for a key
Executing(k) == {c \in Callers : locks.key[c] = k /\ locks.pc[c] = "running"}

\* C36: at no time are two fn of one key executing; a call that ended,
\* whether its fn returned or threw, has removed its lock and resolved its
\* promise; and every call, waiting or not, comes to run its fn and to end.
C36_LockExcludesAndServes ==
    /\ [](\A k \in LockKeys : Cardinality(Executing(k)) <= 1)
    /\ [](\A c \in Callers :
             locks.pc[c] = "ended"
                => (c \in locks.resolved /\ locks.map[locks.key[c]] # c))
    /\ \A c \in Callers :
          /\ (locks.pc[c] = "waiting") ~> (locks.pc[c] = "running")
          /\ (locks.pc[c] = "idle") ~> (locks.pc[c] = "ended")

\* a call runs its fn after the holder before it threw, a third one waiting
C36_Witness ==
    /\ \A c \in Callers : locks.key[c] = "k1"
    /\ \E a, b, c \in Callers :
          /\ locks.pc[a] = "ended" /\ locks.threw[a]
          /\ locks.pc[b] = "running" /\ locks.awaiting[b] = NoLock
          /\ locks.pc[c] = "waiting" /\ locks.awaiting[c] = a

\* the file shows what the operation wrote
Reflected(o) ==
    oauth.file[oauth.call[o].section][oauth.key[o]]
        = IF oauth.call[o].del THEN NoValue ELSE "new"

\* C37: when two operations on different keys of the OAuth store have both
\* completed, the file shows the change of each.
C37_NoLostUpdate ==
    \A o, q \in StoreOps :
        (/\ oauth.pc[o] = "done" /\ oauth.pc[q] = "done"
         /\ <<oauth.call[o].section, oauth.key[o]>>
               # <<oauth.call[q].section, oauth.key[q]>>)
            => (Reflected(o) /\ Reflected(q))

\* C38: the identifiers generateTid returned in one process are, in the
\* order of the calls, strictly increasing as strings, and each is 13
\* characters of the base32-sortable alphabet, whatever the clock returned.
C38_TidsIncrease ==
    /\ \A i \in 1..Len(tid.issued) : IsValidTid(tid.issued[i])
    /\ \A i, j \in 1..Len(tid.issued) :
          i < j => StringLess(tid.issued[i], tid.issued[j])

\* three identifiers, the clock standing still and then going back
C38_Witness ==
    /\ Len(tid.issued) = 3
    /\ tid.clock = <<2, 2, 1>>
    /\ tid.clockId = 1023

====
